---- MODULE Spec2Model ----
(***************************************************************************)
(* monitor-tanques: the tank/measurement domain entities, the two          *)
(* in-memory repositories and TankServiceImpl, as a state machine.         *)
(*                                                                         *)
(* Levels, capacities, temperatures and thresholds are float64 in the      *)
(* source.  The model uses integers and only values for which              *)
(* (level / capacity) * 100 is exact in float64 and in integer arithmetic  *)
(* (capacity 1000 and levels that are multiples of 10), so that            *)
(* GetLevelPercentage is computed without rounding.                        *)
(* time.Time is a natural number; 0 is the zero time (IsZero).             *)
(* A nil *Tank / *Measurement is the record NilTank / NilMeasurement.      *)
(* A nil error is NoErr.                                                   *)
(***************************************************************************)
EXTENDS Integers, Sequences, FiniteSets, TLC

VARIABLES
    tanks,          \* MemoryTankRepository.tanks: map id -> Tank
    measurements,   \* MemoryMeasurementRepository.measurements: map tankID -> slice
    now,            \* the wall clock read by time.Now()
    ret,            \* the last service call: its arguments and what it returned
    procs,          \* the service calls in progress, one per request goroutine
    heap            \* the objects behind the pointers that cross the repositories

vars == <<tanks, measurements, now, ret, procs, heap>>

---------------------------------------------------------------------------
(* Bounds of the model *)

MaxTime == 2
MaxHist == 2
MaxObjs == MaxHist + 2

(* Program constants *)

DefaultAlertThreshold == 10

---------------------------------------------------------------------------
(* Errors *)

NoErr == "nil"
ErrTankNotFound == "services.ErrTankNotFound: tank not found"
ErrInvalidTank == "services.ErrInvalidTank: invalid tank data"
ErrInvalidMeasurement == "invalid measurement data"
RepoErrTankNotFound == "repositories.ErrTankNotFound: tank not found"
ErrTankNil == "tank cannot be nil"
ErrMeasurementNil == "measurement cannot be nil"
ErrTankIDEmpty == "tank ID cannot be empty"
ErrNotifier == "notifier: delivery failed"

---------------------------------------------------------------------------
(* Domain entities *)

NilTank ==
    [ID |-> "<nil>", Name |-> "", Capacity |-> 0, CurrentLevel |-> 0,
     LiquidType |-> "", Temperature |-> 0, LastUpdated |-> 0,
     Status |-> "", AlertThreshold |-> 0]

NilMeasurement ==
    [ID |-> "<nil>", TankID |-> "", Level |-> 0, Timestamp |-> 0,
     Temperature |-> 0]

\* Tank.GetLevelPercentage: (CurrentLevel / Capacity) * 100, 0 when Capacity <= 0.
GetLevelPercentage(t) ==
    IF t.Capacity <= 0 THEN 0 ELSE (t.CurrentLevel * 100) \div t.Capacity

\* Tank.IsLevelCritical
IsLevelCritical(t) ==
    GetLevelPercentage(t) <= t.AlertThreshold

\* Mutant: the boundaries are exclusive.
UpdateStatus_ExclusiveBounds(t) ==
    LET percentage == IF t.Capacity <= 0 THEN 0
                      ELSE (t.CurrentLevel * 100) \div t.Capacity
    IN  IF percentage < t.AlertThreshold
        THEN [t EXCEPT !.Status = "critical"]
        ELSE IF percentage < t.AlertThreshold * 2
             THEN [t EXCEPT !.Status = "warning"]
             ELSE [t EXCEPT !.Status = "normal"]

\* Tank.UpdateStatus: the switch, first matching case wins.
UpdateStatus(t) ==
    LET percentage == GetLevelPercentage(t)
    IN  IF percentage <= t.AlertThreshold
        THEN [t EXCEPT !.Status = "critical"]
        ELSE IF percentage <= t.AlertThreshold * 2
             THEN [t EXCEPT !.Status = "warning"]
             ELSE [t EXCEPT !.Status = "normal"]

---------------------------------------------------------------------------
(* Go maps as functions on the set of present keys *)

Has(map, k) == k \in DOMAIN map

Put(map, k, v) == [x \in DOMAIN map \cup {k} |-> IF x = k THEN v ELSE map[x]]

Remove(map, k) == [x \in DOMAIN map \ {k} |-> map[x]]

EmptyMap == [x \in {} |-> 0]

---------------------------------------------------------------------------
(* MemoryTankRepository *)

\* time.Time.IsZero followed by the assignment of time.Now()
StampIfZero(tank, clock) ==
    IF tank.LastUpdated = 0 THEN [tank EXCEPT !.LastUpdated = clock] ELSE tank

\* The orders in which a range over a Go map may visit the keys.
Orderings(keys) ==
    { o \in [1..Cardinality(keys) -> keys] :
        \A i, j \in 1..Cardinality(keys) : o[i] = o[j] => i = j }

\* GetAllTanks: a copy of every stored tank, in the order of the map range.
RepoGetAllTanks(ts) ==
    { [i \in DOMAIN o |-> ts[o[i]]] : o \in Orderings(DOMAIN ts) }

RepoGetTank(ts, id) ==
    IF ~Has(ts, id)
    THEN [tank |-> NilTank, err |-> RepoErrTankNotFound]
    ELSE [tank |-> ts[id], err |-> NoErr]

\* Mutant: an ID that is already stored is refused.
SaveTank_RefusesStoredID(ts, tank, clock) ==
    IF tank = NilTank
    THEN [tanks |-> ts, err |-> ErrTankNil]
    ELSE IF Has(ts, tank.ID)
         THEN [tanks |-> ts, err |-> ErrInvalidTank]
         ELSE LET tankCopy == StampIfZero(tank, clock)
              IN  [tanks |-> Put(ts, tank.ID, tankCopy), err |-> NoErr]

SaveTank(ts, tank, clock) ==
    IF tank = NilTank
    THEN [tanks |-> ts, err |-> ErrTankNil]
    ELSE LET tankCopy == StampIfZero(tank, clock)
         IN  [tanks |-> Put(ts, tank.ID, tankCopy), err |-> NoErr]

\* Mutant: the tank is stored whether or not its ID is.
RepoUpdateTank_Upserts(ts, tank, clock) ==
    IF tank = NilTank
    THEN [tanks |-> ts, err |-> ErrTankNil]
    ELSE LET tankCopy == StampIfZero(tank, clock)
         IN  [tanks |-> Put(ts, tank.ID, tankCopy), err |-> NoErr]

RepoUpdateTank(ts, tank, clock) ==
    IF tank = NilTank
    THEN [tanks |-> ts, err |-> ErrTankNil]
    ELSE IF ~Has(ts, tank.ID)
         THEN [tanks |-> ts, err |-> RepoErrTankNotFound]
         ELSE LET tankCopy == StampIfZero(tank, clock)
              IN  [tanks |-> Put(ts, tank.ID, tankCopy), err |-> NoErr]

\* Mutant: the key is found and nil is returned, but nothing is deleted.
RepoDeleteTank_KeepsTank(ts, id) ==
    IF ~Has(ts, id)
    THEN [tanks |-> ts, err |-> RepoErrTankNotFound]
    ELSE [tanks |-> ts, err |-> NoErr]

RepoDeleteTank(ts, id) ==
    IF ~Has(ts, id)
    THEN [tanks |-> ts, err |-> RepoErrTankNotFound]
    ELSE [tanks |-> Remove(ts, id), err |-> NoErr]

---------------------------------------------------------------------------
(* MemoryMeasurementRepository *)

\* The slice stored under tankID; a missing key reads as the empty slice.
History(ms, tankID) == IF Has(ms, tankID) THEN ms[tankID] ELSE <<>>

\* Mutant: less(i, j) compares with Before, the slice ends oldest first.
IsSortedDesc_Before(s) ==
    \A i \in 1..Len(s) : \A j \in 1..Len(s) :
        i < j => ~(s[j].Timestamp < s[i].Timestamp)

\* less(i, j) of the sort.Slice call: element i is strictly After element j.
IsSortedDesc(s) ==
    \A i \in 1..Len(s) : \A j \in 1..Len(s) :
        i < j => ~(s[j].Timestamp > s[i].Timestamp)

\* sort.Slice is not stable: the result is some permutation of the slice in
\* which no element comes before one that is strictly After it.
SortOutcomes(s) ==
    LET n == Len(s)
        perms == {p \in [1..n -> 1..n] : \A i, j \in 1..n : i # j => p[i] # p[j]}
    IN  {q \in {[i \in 1..n |-> s[p[i]]] : p \in perms} : IsSortedDesc(q)}

\* Mutant: the measurement is appended and the slice is not sorted.
SaveMeasurement_NoSort(ms, measurement, clock) ==
    IF measurement = NilMeasurement
    THEN {[measurements |-> ms, err |-> ErrMeasurementNil]}
    ELSE LET measurementCopy ==
                 IF measurement.Timestamp = 0
                 THEN [measurement EXCEPT !.Timestamp = clock]
                 ELSE measurement
             appended == Append(History(ms, measurement.TankID), measurementCopy)
         IN  {[measurements |-> Put(ms, measurement.TankID, appended), err |-> NoErr]}

\* SaveMeasurement: the set of stores it can leave, with the error returned.
SaveMeasurement(ms, measurement, clock) ==
    IF measurement = NilMeasurement
    THEN {[measurements |-> ms, err |-> ErrMeasurementNil]}
    ELSE LET measurementCopy ==
                 IF measurement.Timestamp = 0
                 THEN [measurement EXCEPT !.Timestamp = clock]
                 ELSE measurement
             appended == Append(History(ms, measurement.TankID), measurementCopy)
         IN  {[measurements |-> Put(ms, measurement.TankID, sorted), err |-> NoErr] :
                 sorted \in SortOutcomes(appended)}

GetLastMeasurement(ms, tankID) ==
    IF tankID = ""
    THEN [m |-> NilMeasurement, err |-> ErrTankIDEmpty]
    ELSE IF ~Has(ms, tankID) \/ Len(ms[tankID]) = 0
         THEN [m |-> NilMeasurement, err |-> NoErr]
         ELSE [m |-> ms[tankID][1], err |-> NoErr]

---------------------------------------------------------------------------
(* TankServiceImpl: what each operation returns and the stores it leaves *)

\* Mutant: the overlay leaves the stored temperature.
OverlayLastMeasurement_KeepsTemperature(tank, last) ==
    IF last.err = NoErr /\ last.m # NilMeasurement
    THEN UpdateStatus([tank EXCEPT !.CurrentLevel = last.m.Level,
                                   !.LastUpdated = last.m.Timestamp])
    ELSE tank

\* GetTank, lines 54-61: the overlay of the last measurement on the copy
\* returned by the repository.
OverlayLastMeasurement(tank, last) ==
    IF last.err = NoErr /\ last.m # NilMeasurement
    THEN UpdateStatus([tank EXCEPT !.CurrentLevel = last.m.Level,
                                   !.Temperature = last.m.Temperature,
                                   !.LastUpdated = last.m.Timestamp])
    ELSE tank

\* Mutant: an empty ID is looked up like any other.
GetTankResult_LooksUpEmptyID(ts, ms, id) ==
    LET got == RepoGetTank(ts, id)
    IN  IF got.err # NoErr
        THEN [tank |-> NilTank, err |-> got.err]
        ELSE IF got.tank = NilTank
             THEN [tank |-> NilTank, err |-> ErrTankNotFound]
             ELSE [tank |-> OverlayLastMeasurement(got.tank,
                                GetLastMeasurement(ms, id)),
                   err |-> NoErr]

GetTankResult(ts, ms, id) ==
    IF id = ""
    THEN [tank |-> NilTank, err |-> ErrInvalidTank]
    ELSE LET got == RepoGetTank(ts, id)
         IN  IF got.err # NoErr
             THEN [tank |-> NilTank, err |-> got.err]
             ELSE IF got.tank = NilTank
                  THEN [tank |-> NilTank, err |-> ErrTankNotFound]
                  ELSE [tank |-> OverlayLastMeasurement(got.tank,
                                     GetLastMeasurement(ms, id)),
                        err |-> NoErr]

\* Mutant: the copies are returned as the repository stores them.
GetAllTanksResults_NoOverlay(ts, ms) ==
    { [tanks |-> all, err |-> NoErr] : all \in RepoGetAllTanks(ts) }

\* GetAllTanks: every copy returned by the repository gets the overlay of its
\* last measurement; an error of that fetch leaves the copy as it is.
GetAllTanksResults(ts, ms) ==
    { [tanks |-> [i \in DOMAIN all |->
                     OverlayLastMeasurement(all[i],
                         GetLastMeasurement(ms, all[i].ID))],
       err |-> NoErr] : all \in RepoGetAllTanks(ts) }

GetTankStatusResult(ts, ms, tankID) ==
    LET got == GetTankResult(ts, ms, tankID)
    IN  IF got.err # NoErr
        THEN [status |-> "", err |-> got.err]
        ELSE [status |-> got.tank.Status, err |-> NoErr]

\* The alert handed to AlertNotifier.SendAlert: the tank ID and the message,
\* which embeds the tank name and the fill percentage.
Alert(tankID, tank) ==
    [tankID |-> tankID, name |-> tank.Name, percentage |-> GetLevelPercentage(tank)]

\* Mutant: the alert is decided by the Status field, not by IsLevelCritical.
MonitorTankResult_ByStatus(ts, ms, tankID, notifierErr) ==
    LET got == GetTankResult(ts, ms, tankID)
    IN  IF got.err # NoErr
        THEN [err |-> got.err, alerts |-> <<>>]
        ELSE IF got.tank.Status = "critical"
             THEN [err |-> notifierErr, alerts |-> <<Alert(tankID, got.tank)>>]
             ELSE [err |-> NoErr, alerts |-> <<>>]

\* MonitorTank; notifierErr is what SendAlert returns if it is called.
MonitorTankResult(ts, ms, tankID, notifierErr) ==
    LET got == GetTankResult(ts, ms, tankID)
    IN  IF got.err # NoErr
        THEN [err |-> got.err, alerts |-> <<>>]
        ELSE IF IsLevelCritical(got.tank)
             THEN [err |-> notifierErr, alerts |-> <<Alert(tankID, got.tank)>>]
             ELSE [err |-> NoErr, alerts |-> <<>>]

\* Mutant: the status supplied by the caller is kept.
CreateDefaults_KeepsStatus(tank, clock) ==
    [tank EXCEPT !.AlertThreshold = IF tank.AlertThreshold <= 0
                                    THEN DefaultAlertThreshold
                                    ELSE tank.AlertThreshold,
                 !.LastUpdated = clock]

\* CreateTank, lines 94-98: the defaults set on the caller's tank.
CreateDefaults(tank, clock) ==
    [tank EXCEPT !.Status = "normal",
                 !.AlertThreshold = IF tank.AlertThreshold <= 0
                                    THEN DefaultAlertThreshold
                                    ELSE tank.AlertThreshold,
                 !.LastUpdated = clock]

CreateTankResult(ts, tank, clock) ==
    IF tank = NilTank \/ tank.Name = "" \/ tank.Capacity <= 0
    THEN [tanks |-> ts, err |-> ErrInvalidTank]
    ELSE SaveTank(ts, CreateDefaults(tank, clock), clock)

UpdateTankResult_KeepsStatus(ts, tank, clock) ==
    IF tank = NilTank \/ tank.ID = ""
    THEN [tanks |-> ts, err |-> ErrInvalidTank]
    ELSE LET existing == RepoGetTank(ts, tank.ID)
         IN  IF existing.err # NoErr
             THEN [tanks |-> ts, err |-> existing.err]
             ELSE IF existing.tank = NilTank
                  THEN [tanks |-> ts, err |-> ErrTankNotFound]
                  ELSE RepoUpdateTank(ts,
                           [tank EXCEPT !.LastUpdated = clock], clock)

UpdateTankResult(ts, tank, clock) ==
    IF tank = NilTank \/ tank.ID = ""
    THEN [tanks |-> ts, err |-> ErrInvalidTank]
    ELSE LET existing == RepoGetTank(ts, tank.ID)
         IN  IF existing.err # NoErr
             THEN [tanks |-> ts, err |-> existing.err]
             ELSE IF existing.tank = NilTank
                  THEN [tanks |-> ts, err |-> ErrTankNotFound]
                  ELSE RepoUpdateTank(ts,
                           [UpdateStatus(tank) EXCEPT !.LastUpdated = clock], clock)

DeleteTankResult(ts, id) ==
    IF id = ""
    THEN [tanks |-> ts, err |-> ErrInvalidTank]
    ELSE LET existing == RepoGetTank(ts, id)
         IN  IF existing.err # NoErr
             THEN [tanks |-> ts, err |-> existing.err]
             ELSE IF existing.tank = NilTank
                  THEN [tanks |-> ts, err |-> ErrTankNotFound]
                  ELSE RepoDeleteTank(ts, id)

\* Mutant: a negative level is not rejected.
InvalidMeasurement_NoLevelCheck(measurement) ==
    measurement = NilMeasurement \/ measurement.TankID = ""

\* AddMeasurement, line 166
InvalidMeasurement(measurement) ==
    measurement = NilMeasurement \/ measurement.TankID = "" \/ measurement.Level < 0

\* AddMeasurement, lines 191-194: the tank written back to the tank store.
ApplyMeasurement(tank, measurement) ==
    UpdateStatus([tank EXCEPT !.CurrentLevel = measurement.Level,
                              !.Temperature = measurement.Temperature,
                              !.LastUpdated = measurement.Timestamp])

\* Mutant: the ingestion returns after the tank update, without monitoring.
AddMeasurementFinish_NoMonitor(ts, saved, tank, measurement, clock, notifierErr) ==
    IF saved.err # NoErr
    THEN [tanks |-> ts, measurements |-> saved.measurements,
          err |-> saved.err, alerts |-> <<>>]
    ELSE LET upd == RepoUpdateTank(ts,
                        UpdateStatus([tank EXCEPT
                            !.CurrentLevel = measurement.Level,
                            !.Temperature = measurement.Temperature,
                            !.LastUpdated = measurement.Timestamp]), clock)
         IN  [tanks |-> upd.tanks, measurements |-> saved.measurements,
              err |-> upd.err, alerts |-> <<>>]

\* AddMeasurement, lines 185-201, after the measurement was saved into saved:
\* the tank update and then the monitoring step.
AddMeasurementFinish(ts, saved, tank, measurement, clock, notifierErr) ==
    IF saved.err # NoErr
    THEN [tanks |-> ts, measurements |-> saved.measurements,
          err |-> saved.err, alerts |-> <<>>]
    ELSE LET upd == RepoUpdateTank(ts, ApplyMeasurement(tank, measurement), clock)
         IN  IF upd.err # NoErr
             THEN [tanks |-> upd.tanks, measurements |-> saved.measurements,
                   err |-> upd.err, alerts |-> <<>>]
             ELSE LET mon == MonitorTankResult(upd.tanks, saved.measurements,
                                               measurement.TankID, notifierErr)
                  IN  [tanks |-> upd.tanks, measurements |-> saved.measurements,
                       err |-> mon.err, alerts |-> mon.alerts]

\* AddMeasurement: the set of outcomes (one per order sort.Slice may produce).
AddMeasurementResults(ts, ms, measurement, clock, notifierErr) ==
    IF InvalidMeasurement(measurement)
    THEN {[tanks |-> ts, measurements |-> ms,
           err |-> ErrInvalidMeasurement, alerts |-> <<>>]}
    ELSE LET got == RepoGetTank(ts, measurement.TankID)
         IN  IF got.err # NoErr
             THEN {[tanks |-> ts, measurements |-> ms, err |-> got.err, alerts |-> <<>>]}
             ELSE IF got.tank = NilTank
                  THEN {[tanks |-> ts, measurements |-> ms,
                         err |-> ErrTankNotFound, alerts |-> <<>>]}
                  ELSE LET stamped ==
                               IF measurement.Timestamp = 0
                               THEN [measurement EXCEPT !.Timestamp = clock]
                               ELSE measurement
                       IN  {AddMeasurementFinish(ts, saved, got.tank, stamped,
                                                 clock, notifierErr) :
                               saved \in SaveMeasurement(ms, stamped, clock)}

---------------------------------------------------------------------------
(* Inputs of the service calls *)

TankIDs == {"", "t1"}

\* createTestTank of the service tests: capacity 1000 at level 500 (50%).
TankA ==
    [ID |-> "t1", Name |-> "A", Capacity |-> 1000, CurrentLevel |-> 500,
     LiquidType |-> "Agua", Temperature |-> 25, LastUpdated |-> 0,
     Status |-> "normal", AlertThreshold |-> 10]

\* The same tank renamed, at the critical level 50 (5%), with no threshold,
\* and with a status and a last update chosen by the caller.
TankB ==
    [TankA EXCEPT !.Name = "B", !.LiquidType = "Aceite", !.CurrentLevel = 50,
                  !.AlertThreshold = 0, !.LastUpdated = 1, !.Status = "warning"]

\* The tanks handed to CreateTank and UpdateTank.
TankInputs ==
    { TankA, TankB,
      [TankA EXCEPT !.Name = ""],
      [TankA EXCEPT !.Capacity = 0],
      NilTank }

\* The tanks handed to UpdateTank: the same, and one without an ID.
UpdateInputs ==
    TankInputs \cup { [TankA EXCEPT !.ID = ""] }

\* createTestMeasurement of the service tests: level 300 for the test tank.
MeasurementM ==
    [ID |-> "m1", TankID |-> "t1", Level |-> 300, Timestamp |-> 0, Temperature |-> 30]

\* The measurements handed to AddMeasurement: a normal and a critical level
\* at every timestamp (0: not set), a negative level, an empty tank ID and
\* the nil measurement.
MeasurementInputs ==
    { [MeasurementM EXCEPT !.Timestamp = ts] : ts \in 0..MaxTime }
    \cup { [MeasurementM EXCEPT !.Level = 50, !.Temperature = 20, !.Timestamp = ts] :
              ts \in 0..MaxTime }
    \cup { [MeasurementM EXCEPT !.Level = -5],
           [MeasurementM EXCEPT !.TankID = ""],
           NilMeasurement }

NotifierOutcomes == {NoErr, ErrNotifier}

---------------------------------------------------------------------------
(* The state machine: one action per service operation *)

NoCall ==
    [op |-> "none", id |-> "", in |-> NilTank, m |-> NilMeasurement,
     err |-> NoErr, out |-> NilTank, status |-> "", alerts |-> <<>>,
     critical |-> FALSE, list |-> <<>>, failed |-> {}, ctx |-> "background",
     code |-> ""]

Threads == {1, 2}

Idle ==
    [pc |-> "idle", op |-> "none", id |-> "", in |-> NilTank,
     m |-> NilMeasurement, tank |-> NilTank, last |-> NilMeasurement,
     notifierErr |-> NoErr, err |-> NoErr, calls |-> <<>>,
     todo |-> <<>>, locks |-> {}]

\* No object allocated, both repositories empty (NewMemoryTankRepository,
\* NewMemoryMeasurementRepository), no reference held by a caller.
EmptyHeap ==
    [objs |-> EmptyMap, tanks |-> EmptyMap, measurements |-> EmptyMap,
     held |-> {}]

Init ==
    /\ tanks = EmptyMap
    /\ measurements = EmptyMap
    /\ now = 1
    /\ ret = NoCall
    /\ procs = [t \in Threads |-> Idle]
    /\ heap = EmptyHeap

\* time passes
Tick ==
    /\ now < MaxTime
    /\ now' = now + 1
    /\ UNCHANGED <<tanks, measurements, ret, procs, heap>>

\* Mutant: the returned tank is stamped with the time of the read.
GetTank_StampsReadTime(id) ==
    LET r == GetTankResult(tanks, measurements, id)
    IN  /\ ret' = [NoCall EXCEPT !.op = "GetTank", !.id = id, !.err = r.err,
                                 !.out = IF r.err = NoErr
                                         THEN [r.tank EXCEPT !.LastUpdated = now]
                                         ELSE r.tank]
        /\ UNCHANGED <<tanks, measurements, now, procs, heap>>

\* Mutant: the projection is written back to the tank store.
GetTank_PersistsOverlay(id) ==
    LET r == GetTankResult(tanks, measurements, id)
    IN  /\ ret' = [NoCall EXCEPT !.op = "GetTank", !.id = id,
                                 !.err = r.err, !.out = r.tank]
        /\ tanks' = IF r.err = NoErr THEN Put(tanks, id, r.tank) ELSE tanks
        /\ UNCHANGED <<measurements, now, procs, heap>>

GetTank(id) ==
    LET r == GetTankResult(tanks, measurements, id)
    IN  /\ ret' = [NoCall EXCEPT !.op = "GetTank", !.id = id,
                                 !.err = r.err, !.out = r.tank]
        /\ UNCHANGED <<tanks, measurements, now, procs, heap>>

GetAllTanks ==
    \E r \in GetAllTanksResults(tanks, measurements) :
        /\ ret' = [NoCall EXCEPT !.op = "GetAllTanks", !.err = r.err,
                                 !.list = r.tanks]
        /\ UNCHANGED <<tanks, measurements, now, procs, heap>>

GetTankStatus(tankID) ==
    LET r == GetTankStatusResult(tanks, measurements, tankID)
    IN  /\ ret' = [NoCall EXCEPT !.op = "GetTankStatus", !.id = tankID,
                                 !.err = r.err, !.status = r.status]
        /\ UNCHANGED <<tanks, measurements, now, procs, heap>>

MonitorTank(tankID, notifierErr) ==
    LET r == MonitorTankResult(tanks, measurements, tankID, notifierErr)
    IN  /\ ret' = [NoCall EXCEPT !.op = "MonitorTank", !.id = tankID,
                                 !.err = r.err, !.alerts = r.alerts]
        /\ UNCHANGED <<tanks, measurements, now, procs, heap>>

CreateTank(tank) ==
    LET r == CreateTankResult(tanks, tank, now)
    IN  /\ tanks' = r.tanks
        /\ ret' = [NoCall EXCEPT !.op = "CreateTank", !.id = tank.ID,
                                 !.in = tank, !.err = r.err]
        /\ UNCHANGED <<measurements, now, procs, heap>>

UpdateTank(tank) ==
    LET r == UpdateTankResult(tanks, tank, now)
    IN  /\ tanks' = r.tanks
        /\ ret' = [NoCall EXCEPT !.op = "UpdateTank", !.id = tank.ID,
                                 !.in = tank, !.err = r.err]
        /\ UNCHANGED <<measurements, now, procs, heap>>

\* Mutant: the deletion cascades to the tank's history.
DeleteTank_Cascades(id) ==
    LET r == DeleteTankResult(tanks, id)
    IN  /\ tanks' = r.tanks
        /\ measurements' = IF r.err = NoErr
                           THEN Remove(measurements, id)
                           ELSE measurements
        /\ ret' = [NoCall EXCEPT !.op = "DeleteTank", !.id = id, !.err = r.err]
        /\ UNCHANGED <<now, procs, heap>>

DeleteTank(id) ==
    LET r == DeleteTankResult(tanks, id)
    IN  /\ tanks' = r.tanks
        /\ ret' = [NoCall EXCEPT !.op = "DeleteTank", !.id = id, !.err = r.err]
        /\ UNCHANGED <<measurements, now, procs, heap>>

\* The history of a tank is bounded by MaxHist in the model.
AddMeasurement(measurement, notifierErr) ==
    /\ Len(History(measurements, measurement.TankID)) < MaxHist
    /\ \E r \in AddMeasurementResults(tanks, measurements, measurement, now, notifierErr) :
          /\ tanks' = r.tanks
          /\ measurements' = r.measurements
          /\ ret' = [NoCall EXCEPT !.op = "AddMeasurement", !.id = measurement.TankID,
                                   !.m = measurement, !.err = r.err,
                                   !.alerts = r.alerts]
    /\ UNCHANGED <<now, procs, heap>>

Next ==
    \/ Tick
    \/ \E id \in TankIDs : GetTank(id)
    \/ GetAllTanks
    \/ \E id \in TankIDs : GetTankStatus(id)
    \/ \E id \in TankIDs : \E ne \in NotifierOutcomes : MonitorTank(id, ne)
    \/ \E t \in TankInputs : CreateTank(t)
    \/ \E t \in UpdateInputs : UpdateTank(t)
    \/ \E id \in TankIDs : DeleteTank(id)
    \/ \E m \in MeasurementInputs : \E ne \in NotifierOutcomes : AddMeasurement(m, ne)

Spec == Init /\ [][Next]_vars

---------------------------------------------------------------------------
(* The entity methods on their own: Tank.UpdateStatus and                  *)
(* Tank.IsLevelCritical applied to tanks of every kind, also ones no       *)
(* service call would store.                                               *)

EntityLevels == {-10, 0, 50, 100, 110, 200, 210, 250, 500}
EntityCapacities == {-1000, 0, 1000}
EntityThresholds == {-10, 0, 10, 25}
EntityStatuses == {"normal", "critical"}

EntityInputs ==
    { [TankA EXCEPT !.CurrentLevel = l, !.Capacity = c,
                    !.AlertThreshold = th, !.Status = st] :
        l \in EntityLevels, c \in EntityCapacities,
        th \in EntityThresholds, st \in EntityStatuses }

EntityInit ==
    /\ tanks = EmptyMap
    /\ measurements = EmptyMap
    /\ now = 1
    /\ procs = [t \in Threads |-> Idle]
    /\ heap = EmptyHeap
    /\ ret \in {[NoCall EXCEPT !.op = "input", !.in = t] : t \in EntityInputs}

\* t.UpdateStatus() on the input tank
TankUpdateStatus ==
    /\ ret.op = "input"
    /\ ret' = [ret EXCEPT !.op = "UpdateStatus", !.out = UpdateStatus(ret.in)]
    /\ UNCHANGED <<tanks, measurements, now, procs, heap>>

\* t.IsLevelCritical() on the input tank, before or after t.UpdateStatus()
TankIsLevelCritical ==
    /\ ret.op \in {"input", "UpdateStatus"}
    /\ ret' = [ret EXCEPT !.op = "IsLevelCritical",
                          !.critical = IsLevelCritical(ret.in)]
    /\ UNCHANGED <<tanks, measurements, now, procs, heap>>

EntityNext == TankUpdateStatus \/ TankIsLevelCritical

EntitySpec == EntityInit /\ [][EntityNext]_vars

---------------------------------------------------------------------------
(* Concurrent requests: each thread runs one service call at a time, and   *)
(* each repository method, which holds the repository's mutex from its     *)
(* first to its last statement, is one step.  Validation and the other     *)
(* statements that touch only the call's own variables happen in the step  *)
(* of the repository call that follows them.                               *)

ConcTankInputs == {TankA, TankB}

ConcMeasurementInputs ==
    { MeasurementM, [MeasurementM EXCEPT !.Level = 50, !.Temperature = 20] }

ConcTankIDs == {"t1"}

Proc(t) == procs[t]

Called(p, call, err) == Append(p.calls, [call |-> call, err |-> err])

\* The call returns err; its local variables are gone.
Finish(p, err) ==
    [p EXCEPT !.pc = "done", !.err = err, !.tank = NilTank, !.last = NilMeasurement]

\* Mutant: the error of the tank update is ignored and monitoring runs.
AfterTankUpdate_IgnoresError(p, err) ==
    [p EXCEPT !.pc = "mon_get"]

\* AddMeasurement, lines 196-201: return the error of the tank update, or go
\* on to MonitorTank.
AfterTankUpdate(p, err) ==
    IF err # NoErr THEN Finish(p, err) ELSE [p EXCEPT !.pc = "mon_get"]

\* The measurements recorded for tankID plus those about to be saved.
PendingHistory(tankID) ==
    Len(History(measurements, tankID))
        + Cardinality({t \in Threads : Proc(t).pc = "am_save" /\ Proc(t).m.TankID = tankID})

\* AddMeasurement, lines 166-183: validation, tankRepo.GetTank, timestamp.
AmStart(t, measurement, notifierErr) ==
    /\ Proc(t).pc \in {"idle", "done"}
    /\ PendingHistory(measurement.TankID) < MaxHist
    /\ LET p == [Idle EXCEPT !.op = "AddMeasurement", !.id = measurement.TankID,
                             !.m = measurement, !.notifierErr = notifierErr]
           got == RepoGetTank(tanks, measurement.TankID)
       IN  procs' = [procs EXCEPT ![t] =
               IF InvalidMeasurement(measurement)
               THEN Finish(p, ErrInvalidMeasurement)
               ELSE IF got.err # NoErr
                    THEN Finish([p EXCEPT !.calls = Called(p, "GetTank", got.err)], got.err)
                    ELSE IF got.tank = NilTank
                         THEN Finish(p, ErrTankNotFound)
                         ELSE [p EXCEPT !.pc = "am_save",
                                        !.tank = got.tank,
                                        !.calls = Called(p, "GetTank", NoErr),
                                        !.m = IF measurement.Timestamp = 0
                                              THEN [measurement EXCEPT !.Timestamp = now]
                                              ELSE measurement]]
    /\ UNCHANGED <<tanks, measurements, now, ret, heap>>

\* AddMeasurement, lines 186-194: measurementRepo.SaveMeasurement, then the
\* new values are set on the call's copy of the tank.
AmSave(t) ==
    /\ Proc(t).pc = "am_save"
    /\ \E saved \in SaveMeasurement(measurements, Proc(t).m, now) :
          /\ measurements' = saved.measurements
          /\ LET p == [Proc(t) EXCEPT
                          !.calls = Called(Proc(t), "SaveMeasurement", saved.err)]
             IN  procs' = [procs EXCEPT ![t] =
                     IF saved.err # NoErr
                     THEN Finish(p, saved.err)
                     ELSE [p EXCEPT !.pc = "am_update",
                                    !.tank = ApplyMeasurement(p.tank, p.m)]]
    /\ UNCHANGED <<tanks, now, ret, heap>>

\* AddMeasurement, lines 196-198: tankRepo.UpdateTank.
AmUpdate(t) ==
    /\ Proc(t).pc = "am_update"
    /\ LET upd == RepoUpdateTank(tanks, Proc(t).tank, now)
           p == [Proc(t) EXCEPT !.calls = Called(Proc(t), "UpdateTank", upd.err)]
       IN  /\ tanks' = upd.tanks
           /\ procs' = [procs EXCEPT ![t] = AfterTankUpdate(p, upd.err)]
    /\ UNCHANGED <<measurements, now, ret, heap>>

\* MonitorTank called on its own.
MonStart(t, tankID, notifierErr) ==
    /\ Proc(t).pc \in {"idle", "done"}
    /\ procs' = [procs EXCEPT ![t] =
           [Idle EXCEPT !.op = "MonitorTank", !.id = tankID, !.pc = "mon_get",
                        !.notifierErr = notifierErr]]
    /\ UNCHANGED <<tanks, measurements, now, ret, heap>>

\* GetTank (called by MonitorTank), lines 41-52: tankRepo.GetTank.
MonGetTank(t) ==
    /\ Proc(t).pc = "mon_get"
    /\ LET p == Proc(t)
           got == RepoGetTank(tanks, p.id)
       IN  procs' = [procs EXCEPT ![t] =
               IF p.id = ""
               THEN Finish(p, ErrInvalidTank)
               ELSE IF got.err # NoErr
                    THEN Finish(p, got.err)
                    ELSE IF got.tank = NilTank
                         THEN Finish(p, ErrTankNotFound)
                         ELSE [p EXCEPT !.pc = "mon_last", !.tank = got.tank]]
    /\ UNCHANGED <<tanks, measurements, now, ret, heap>>

\* GetTank, lines 55-63: measurementRepo.GetLastMeasurement and the overlay;
\* then MonitorTank, line 153: the decision to alert.
MonGetLast(t) ==
    /\ Proc(t).pc = "mon_last"
    /\ LET p == Proc(t)
           last == GetLastMeasurement(measurements, p.id)
           tank == OverlayLastMeasurement(p.tank, last)
       IN  procs' = [procs EXCEPT ![t] =
               IF IsLevelCritical(tank)
               THEN [p EXCEPT !.pc = "mon_send", !.tank = tank, !.last = last.m]
               ELSE Finish([p EXCEPT !.tank = tank, !.last = last.m], NoErr)]
    /\ UNCHANGED <<tanks, measurements, now, ret, heap>>

\* MonitorTank, line 158: alertNotifier.SendAlert.
MonSend(t) ==
    /\ Proc(t).pc = "mon_send"
    /\ LET p == Proc(t)
       IN  procs' = [procs EXCEPT ![t] =
               Finish([p EXCEPT !.calls = Called(p, "SendAlert", p.notifierErr)],
                      p.notifierErr)]
    /\ UNCHANGED <<tanks, measurements, now, ret, heap>>

\* CreateTank: validation, defaults and tankRepo.SaveTank.
CreateStart(t, tank) ==
    /\ Proc(t).pc \in {"idle", "done"}
    /\ LET r == CreateTankResult(tanks, tank, now)
       IN  /\ tanks' = r.tanks
           /\ procs' = [procs EXCEPT ![t] =
                  Finish([Idle EXCEPT !.op = "CreateTank", !.id = tank.ID,
                                      !.in = tank], r.err)]
    /\ UNCHANGED <<measurements, now, ret, heap>>

\* DeleteTank, lines 128-140: validation and tankRepo.GetTank.
DelStart(t, id) ==
    /\ Proc(t).pc \in {"idle", "done"}
    /\ LET p == [Idle EXCEPT !.op = "DeleteTank", !.id = id]
           existing == RepoGetTank(tanks, id)
       IN  procs' = [procs EXCEPT ![t] =
               IF id = ""
               THEN Finish(p, ErrInvalidTank)
               ELSE IF existing.err # NoErr
                    THEN Finish(p, existing.err)
                    ELSE IF existing.tank = NilTank
                         THEN Finish(p, ErrTankNotFound)
                         ELSE [p EXCEPT !.pc = "del_delete"]]
    /\ UNCHANGED <<tanks, measurements, now, ret, heap>>

\* DeleteTank, line 142: tankRepo.DeleteTank.
DelDelete(t) ==
    /\ Proc(t).pc = "del_delete"
    /\ LET r == RepoDeleteTank(tanks, Proc(t).id)
       IN  /\ tanks' = r.tanks
           /\ procs' = [procs EXCEPT ![t] =
                  Finish([Proc(t) EXCEPT !.calls = Called(Proc(t), "DeleteTank", r.err)],
                         r.err)]
    /\ UNCHANGED <<measurements, now, ret, heap>>

\* UpdateTank, lines 105-117: validation and tankRepo.GetTank.
UpdStart(t, tank) ==
    /\ Proc(t).pc \in {"idle", "done"}
    /\ LET p == [Idle EXCEPT !.op = "UpdateTank", !.id = tank.ID, !.in = tank]
           existing == RepoGetTank(tanks, tank.ID)
       IN  procs' = [procs EXCEPT ![t] =
               IF tank = NilTank \/ tank.ID = ""
               THEN Finish(p, ErrInvalidTank)
               ELSE IF existing.err # NoErr
                    THEN Finish(p, existing.err)
                    ELSE IF existing.tank = NilTank
                         THEN Finish(p, ErrTankNotFound)
                         ELSE [p EXCEPT !.pc = "upd_update"]]
    /\ UNCHANGED <<tanks, measurements, now, ret, heap>>

\* UpdateTank, lines 120-123: status, time stamp and tankRepo.UpdateTank.
UpdUpdate(t) ==
    /\ Proc(t).pc = "upd_update"
    /\ LET r == RepoUpdateTank(tanks,
                    [UpdateStatus(Proc(t).in) EXCEPT !.LastUpdated = now], now)
       IN  /\ tanks' = r.tanks
           /\ procs' = [procs EXCEPT ![t] =
                  Finish([Proc(t) EXCEPT !.calls = Called(Proc(t), "UpdateTank", r.err)],
                         r.err)]
    /\ UNCHANGED <<measurements, now, ret, heap>>

ConcNext ==
    \E t \in Threads :
        \/ \E m \in ConcMeasurementInputs : \E ne \in NotifierOutcomes : AmStart(t, m, ne)
        \/ AmSave(t)
        \/ AmUpdate(t)
        \/ \E id \in ConcTankIDs : \E ne \in NotifierOutcomes : MonStart(t, id, ne)
        \/ MonGetTank(t)
        \/ MonGetLast(t)
        \/ MonSend(t)
        \/ \E tank \in ConcTankInputs : CreateStart(t, tank)
        \/ \E id \in ConcTankIDs : DelStart(t, id)
        \/ DelDelete(t)
        \/ \E tank \in ConcTankInputs : UpdStart(t, tank)
        \/ UpdUpdate(t)

ConcSpec == Init /\ [][ConcNext]_vars

---------------------------------------------------------------------------
(* Vocabulary of the claims *)

\* pct <= k * threshold, for pct = level / capacity * 100 over the reals
\* (pct = 0 when capacity <= 0), stated without division.
PctAtMost(level, capacity, threshold, k) ==
    IF capacity <= 0
    THEN 0 <= k * threshold
    ELSE level * 100 <= k * threshold * capacity

\* The three-tier status the specification assigns to a fill percentage.
Classify(level, capacity, threshold) ==
    IF PctAtMost(level, capacity, threshold, 1) THEN "critical"
    ELSE IF PctAtMost(level, capacity, threshold, 2) THEN "warning"
    ELSE "normal"

StatusReflectsFill(t) ==
    t.Status = Classify(t.CurrentLevel, t.Capacity, t.AlertThreshold)

IsNotFound(err) == err \in {ErrTankNotFound, RepoErrTankNotFound}

\* The timestamp a measurement is stored with: its own, or the clock's.
EffectiveTimestamp(measurement, clock) ==
    IF measurement.Timestamp = 0 THEN clock ELSE measurement.Timestamp

\* The step is a successful AddMeasurement of a measurement whose timestamp
\* is strictly later than every timestamp already recorded for its tank.
AddsNewest ==
    /\ measurements' # measurements
    /\ ret'.op = "AddMeasurement"
    /\ ret'.err = NoErr
    /\ \A i \in 1..Len(History(measurements, ret'.id)) :
          History(measurements, ret'.id)[i].Timestamp
              < EffectiveTimestamp(ret'.m, now)

---------------------------------------------------------------------------
(* C1 *)

\* C1 (as claimed): every stored tank, and every tank or status returned by
\* GetTank / GetTankStatus, has the status that its fill percentage and
\* threshold classify it to: critical iff pct <= threshold, warning iff
\* threshold < pct <= 2*threshold, normal otherwise.
C1_StatusAlwaysReflectsFill ==
    /\ \A id \in DOMAIN tanks : StatusReflectsFill(tanks[id])
    /\ (ret.op = "GetTank" /\ ret.err = NoErr) => StatusReflectsFill(ret.out)
    /\ (ret.op = "GetTankStatus" /\ ret.err = NoErr) =>
          LET t == GetTankResult(tanks, measurements, ret.id).tank
          IN  ret.status = Classify(t.CurrentLevel, t.Capacity, t.AlertThreshold)

---------------------------------------------------------------------------
(* C2 *)

\* C2 (as claimed): after any successful AddMeasurement(m), GetTank(m.tank_id)
\* reports current_level = m.level, temperature = m.temperature and the
\* status classified from that level, whatever timestamp m carries.
C2_GetTankReportsAddedMeasurement ==
    (ret.op = "AddMeasurement" /\ ret.err = NoErr) =>
        LET got == GetTankResult(tanks, measurements, ret.id)
        IN  /\ got.err = NoErr
            /\ got.tank.CurrentLevel = ret.m.Level
            /\ got.tank.Temperature = ret.m.Temperature
            /\ got.tank.Status =
                  Classify(ret.m.Level, got.tank.Capacity, got.tank.AlertThreshold)

\* C2 (amended): after a successful AddMeasurement(m) whose timestamp is
\* strictly later than every timestamp already recorded for the tank,
\* GetTank(m.tank_id) reports current_level = m.level, temperature =
\* m.temperature and the status classified from that level.
C2_GetTankReportsNewestMeasurement ==
    [][AddsNewest =>
          LET got == GetTankResult(tanks', measurements', ret'.id)
          IN  /\ got.err = NoErr
              /\ got.tank.CurrentLevel = ret'.m.Level
              /\ got.tank.Temperature = ret'.m.Temperature
              /\ got.tank.Status =
                    Classify(ret'.m.Level, got.tank.Capacity, got.tank.AlertThreshold)
      ]_vars

\* A successful AddMeasurement has put its measurement in front of an older
\* one with another level.
C2_Witness ==
    /\ ret.op = "AddMeasurement"
    /\ ret.err = NoErr
    /\ Len(History(measurements, ret.id)) = 2
    /\ measurements[ret.id][1].Level = ret.m.Level
    /\ measurements[ret.id][2].Level # ret.m.Level
    /\ measurements[ret.id][2].Timestamp < measurements[ret.id][1].Timestamp
    /\ measurements[ret.id][1].Timestamp = EffectiveTimestamp(ret.m, now)

---------------------------------------------------------------------------
(* C3 *)

\* The number of alerts the claim expects from an AddMeasurement(m) on a
\* tank: one if m.level / capacity * 100 <= alert_threshold, else none.
ExpectedAlerts(m, tank) ==
    IF PctAtMost(m.Level, tank.Capacity, tank.AlertThreshold, 1) THEN 1 ELSE 0

\* C3 (as claimed): every successful AddMeasurement(m) invokes the notifier
\* exactly once if m.level / capacity * 100 <= alert_threshold and not at
\* all otherwise, whatever else the history of the tank holds.
C3_AlertDecidedByIngestedMeasurement ==
    (ret.op = "AddMeasurement" /\ ret.err = NoErr) =>
        Len(ret.alerts) = ExpectedAlerts(ret.m, tanks[ret.id])

\* C3 (amended): every successful AddMeasurement(m) whose timestamp is
\* strictly later than every timestamp already recorded for the tank invokes
\* the notifier exactly once, for that tank, if m.level / capacity * 100 <=
\* alert_threshold, and not at all otherwise.
C3_AlertDecidedByNewestMeasurement ==
    [][AddsNewest =>
          /\ Len(ret'.alerts) = ExpectedAlerts(ret'.m, tanks'[ret'.id])
          /\ \A i \in 1..Len(ret'.alerts) : ret'.alerts[i].tankID = ret'.id
      ]_vars

\* A successful AddMeasurement of a critical level, later than a recorded
\* normal level, has sent its one alert.
C3_Witness ==
    /\ ret.op = "AddMeasurement"
    /\ ret.err = NoErr
    /\ Len(ret.alerts) = 1
    /\ Len(History(measurements, ret.id)) = 2
    /\ measurements[ret.id][1].Level = ret.m.Level
    /\ measurements[ret.id][2].Timestamp < measurements[ret.id][1].Timestamp
    /\ ~PctAtMost(measurements[ret.id][2].Level, tanks[ret.id].Capacity,
                  tanks[ret.id].AlertThreshold, 1)

---------------------------------------------------------------------------
(* C4 *)

\* C4: a MonitorTank(id) call sends exactly one alert, carrying id, if
\* GetTank(id) returns a tank whose fill percentage is <= its threshold, and
\* no alert otherwise, whatever was called before (no deduplication).
C4_MonitorAlertsIffCritical ==
    (ret.op = "MonitorTank") =>
        LET got == GetTankResult(tanks, measurements, ret.id)
        IN  IF /\ got.err = NoErr
               /\ PctAtMost(got.tank.CurrentLevel, got.tank.Capacity,
                            got.tank.AlertThreshold, 1)
            THEN Len(ret.alerts) = 1 /\ ret.alerts[1].tankID = ret.id
            ELSE ret.alerts = <<>>

\* MonitorTank has sent an alert for a tank that no measurement was
\* recorded for, and whose stored status is not critical.
C4_Witness ==
    /\ ret.op = "MonitorTank"
    /\ Len(ret.alerts) = 1
    /\ History(measurements, ret.id) = <<>>
    /\ tanks[ret.id].Status # "critical"

---------------------------------------------------------------------------
(* C5 *)

Ok(call) == [call |-> call, err |-> NoErr]

\* C5: in every AddMeasurement, under any interleaving with other calls,
\* the tank store is written only after the measurement store was written
\* without error, and the notifier is invoked only after the tank store was
\* then written without error; a failed write ends the call.
C5_SaveThenUpdateThenNotify ==
    \A t \in Threads :
        Proc(t).op = "AddMeasurement" =>
            LET c == Proc(t).calls
            IN  \A i \in 1..Len(c) :
                    /\ c[i].call = "SaveMeasurement" =>
                          (i = 2 /\ c[1] = Ok("GetTank"))
                    /\ c[i].call = "UpdateTank" =>
                          (i = 3 /\ c[2] = Ok("SaveMeasurement"))
                    /\ c[i].call = "SendAlert" =>
                          (i = 4 /\ c[2] = Ok("SaveMeasurement")
                                 /\ c[3] = Ok("UpdateTank"))

\* An AddMeasurement has returned after its tank update failed, because the
\* tank was deleted meanwhile: the measurement is saved, no alert was sent.
C5_Witness ==
    \E t \in Threads :
        /\ Proc(t).op = "AddMeasurement"
        /\ Proc(t).pc = "done"
        /\ Proc(t).calls = <<Ok("GetTank"), Ok("SaveMeasurement"),
                             [call |-> "UpdateTank", err |-> RepoErrTankNotFound]>>

---------------------------------------------------------------------------
(* C6 *)

\* C6: UpdateStatus changes nothing but the status, which it sets from
\* current_level, capacity and alert_threshold alone: critical when
\* pct <= threshold, warning when threshold < pct <= 2*threshold, normal
\* otherwise (pct = 0 when capacity <= 0); and IsLevelCritical is true
\* exactly when that classification is critical.
C6_StatusIsClassification ==
    LET class == Classify(ret.in.CurrentLevel, ret.in.Capacity, ret.in.AlertThreshold)
    IN  /\ ret.op \in {"UpdateStatus", "IsLevelCritical"} /\ ret.out # NilTank =>
              ret.out = [ret.in EXCEPT !.Status = class]
        /\ ret.op = "IsLevelCritical" =>
              /\ ret.critical = (class = "critical")
              /\ ret.out # NilTank => ret.critical = (ret.out.Status = "critical")

\* UpdateStatus has classified a tank filled to exactly twice its threshold,
\* and IsLevelCritical has then answered for it.
C6_Witness ==
    /\ ret.op = "IsLevelCritical"
    /\ ret.in.Capacity > 0
    /\ ret.in.AlertThreshold > 0
    /\ ret.in.CurrentLevel * 100 = 2 * ret.in.AlertThreshold * ret.in.Capacity
    /\ ret.out.Status = "warning"
    /\ ~ret.critical

---------------------------------------------------------------------------
(* C7 *)

\* C7 (as claimed): after any prior operations, a successful CreateTank(t)
\* followed by GetTank(t.ID) returns a tank with t's ID and name and with
\* exactly the current_level and temperature supplied in t.
C7_CreateThenGetRoundTrip ==
    (ret.op = "CreateTank" /\ ret.err = NoErr) =>
        LET got == GetTankResult(tanks, measurements, ret.id)
        IN  /\ got.err = NoErr
            /\ got.tank.ID = ret.in.ID
            /\ got.tank.Name = ret.in.Name
            /\ got.tank.CurrentLevel = ret.in.CurrentLevel
            /\ got.tank.Temperature = ret.in.Temperature

---------------------------------------------------------------------------
(* C8 *)

\* C8: DeleteTank("") fails with InvalidTank and DeleteTank of an absent id
\* with NotFound, both leaving the tank store unchanged; a successful
\* DeleteTank(id) removes the tank, so that GetTank(id) fails with NotFound
\* and returns no tank; and a GetTank(id) that fails with NotFound keeps
\* failing so across every step that is not a CreateTank with that id.
C8_DeletedTankIsNotFound ==
    [][ /\ (ret'.op = "DeleteTank" /\ (ret' # ret \/ tanks' # tanks)) =>
              IF ret'.id = ""
              THEN ret'.err = ErrInvalidTank /\ tanks' = tanks
              ELSE IF ret'.id \notin DOMAIN tanks
                   THEN IsNotFound(ret'.err) /\ tanks' = tanks
                   ELSE /\ ret'.err = NoErr
                        /\ ret'.id \notin DOMAIN tanks'
                        /\ LET got == GetTankResult(tanks', measurements', ret'.id)
                           IN  IsNotFound(got.err) /\ got.tank = NilTank
        /\ \A id \in TankIDs :
              ( /\ IsNotFound(GetTankResult(tanks, measurements, id).err)
                /\ ~(ret'.op = "CreateTank" /\ ret'.id = id) ) =>
                  LET got == GetTankResult(tanks', measurements', id)
                  IN  IsNotFound(got.err) /\ got.tank = NilTank
      ]_vars

\* DeleteTank has removed a tank that had a measurement recorded.
C8_Witness ==
    /\ ret.op = "DeleteTank"
    /\ ret.err = NoErr
    /\ ret.id \notin DOMAIN tanks
    /\ Len(History(measurements, ret.id)) > 0

---------------------------------------------------------------------------
(* C9 *)

\* C9: AddMeasurement of a nil measurement, of one with an empty tank_id or
\* of one with level < 0 fails with the validation error, and AddMeasurement
\* for a tank_id that is not stored fails with NotFound; in all these cases
\* both stores are left as they were and no alert is sent.
C9_RejectedMeasurementWritesNothing ==
    [][ (ret'.op = "AddMeasurement" /\ ret' # ret) =>
            LET m == ret'.m
                invalid == m = NilMeasurement \/ m.TankID = "" \/ m.Level < 0
                untouched == /\ tanks' = tanks
                             /\ measurements' = measurements
                             /\ ret'.alerts = <<>>
            IN  /\ invalid => (ret'.err = ErrInvalidMeasurement /\ untouched)
                /\ (~invalid /\ m.TankID \notin DOMAIN tanks) =>
                      (IsNotFound(ret'.err) /\ untouched)
      ]_vars

\* AddMeasurement has rejected a negative level for a stored tank.
C9_Witness ==
    /\ ret.op = "AddMeasurement"
    /\ ret.m # NilMeasurement
    /\ ret.m.Level < 0
    /\ ret.m.TankID \in DOMAIN tanks
    /\ ret.err = ErrInvalidMeasurement

---------------------------------------------------------------------------
(* C10 *)

\* The step is a CreateTank call.
IsCreateTankStep ==
    ret'.op = "CreateTank" /\ (ret' # ret \/ tanks' # tanks)

\* What the claim says CreateTank changes in the supplied tank.
ClaimedDefaults(tank) ==
    [tank EXCEPT !.Status = "normal",
                 !.AlertThreshold = IF tank.AlertThreshold <= 0 THEN 10 ELSE @]

\* C10 (as claimed): CreateTank fails with InvalidTank and writes nothing
\* when the tank is nil, its name empty or its capacity <= 0; otherwise it
\* stores the tank with status normal, with threshold 10 if the supplied one
\* was <= 0, and with every other supplied field unchanged.
C10_CreateTankKeepsOtherFields ==
    [][ IsCreateTankStep =>
            IF ret'.in = NilTank \/ ret'.in.Name = "" \/ ret'.in.Capacity <= 0
            THEN ret'.err = ErrInvalidTank /\ tanks' = tanks
            ELSE /\ ret'.err = NoErr
                 /\ tanks' = Put(tanks, ret'.in.ID, ClaimedDefaults(ret'.in))
      ]_vars

\* C10 (amended): as claimed, except that the stored last_updated is the
\* time of the call and not the supplied one.
C10_CreateTankStampsLastUpdated ==
    [][ IsCreateTankStep =>
            IF ret'.in = NilTank \/ ret'.in.Name = "" \/ ret'.in.Capacity <= 0
            THEN ret'.err = ErrInvalidTank /\ tanks' = tanks
            ELSE /\ ret'.err = NoErr
                 /\ tanks' = Put(tanks, ret'.in.ID,
                                 [ClaimedDefaults(ret'.in) EXCEPT !.LastUpdated = now])
      ]_vars

\* CreateTank has stored a tank supplied without a threshold, with a status
\* other than normal and with a last update other than the time of the call.
C10_Witness ==
    /\ ret.op = "CreateTank"
    /\ ret.err = NoErr
    /\ ret.in.AlertThreshold <= 0
    /\ ret.in.Status # "normal"
    /\ ret.id \in DOMAIN tanks
    /\ tanks[ret.id].AlertThreshold = 10
    /\ tanks[ret.id].Status = "normal"
    /\ tanks[ret.id].LastUpdated # ret.in.LastUpdated

(***************************************************************************)
(* C11: UpdateTank                                                         *)
(***************************************************************************)

IsUpdateTankStep ==
    /\ ret'.op = "UpdateTank"
    /\ (ret' # ret \/ tanks' # tanks)

\* C11: UpdateTank fails with InvalidTank when the tank is absent or its ID
\* is empty and with NotFound when no stored tank has that ID, and then the
\* store is unchanged; when it succeeds the stored tank is the incoming one
\* with its status recomputed from the incoming level, capacity and
\* threshold and last_updated stamped, nothing of the old entry survives,
\* and a following GetTank returns the incoming name, liquid type, capacity
\* and alert threshold.
C11_UpdateTankReplacesStoredTank ==
    [][ IsUpdateTankStep =>
          LET tank == ret'.in
              got  == GetTankResult(tanks', measurements', tank.ID)
          IN  /\ (tank = NilTank \/ tank.ID = "") =>
                    ret'.err = ErrInvalidTank
              /\ (tank # NilTank /\ tank.ID # "" /\ ~Has(tanks, tank.ID)) =>
                    IsNotFound(ret'.err)
              /\ (tank # NilTank /\ tank.ID # "" /\ Has(tanks, tank.ID)) =>
                    ret'.err = NoErr
              /\ ret'.err # NoErr => tanks' = tanks
              /\ ret'.err = NoErr =>
                    /\ tanks' = Put(tanks, tank.ID,
                                    [tank EXCEPT
                                       !.Status = Classify(tank.CurrentLevel,
                                                           tank.Capacity,
                                                           tank.AlertThreshold),
                                       !.LastUpdated = now])
                    /\ got.err = NoErr
                    /\ got.tank.Name = tank.Name
                    /\ got.tank.LiquidType = tank.LiquidType
                    /\ got.tank.Capacity = tank.Capacity
                    /\ got.tank.AlertThreshold = tank.AlertThreshold
              /\ measurements' = measurements
      ]_vars

\* An update that replaced a stored tank by one that differs from it in
\* name, liquid type, level, threshold and status.
C11_Witness ==
    /\ ret.op = "UpdateTank"
    /\ ret.err = NoErr
    /\ ret.in.Name = "B"
    /\ ret.in.Status = "warning"
    /\ Has(tanks, ret.id)
    /\ tanks[ret.id].Name = "B"
    /\ tanks[ret.id].LiquidType = "Aceite"
    /\ tanks[ret.id].Status = "normal"

(***************************************************************************)
(* C12: the error kinds of GetTank                                         *)
(***************************************************************************)

\* C12 (as claimed): GetTank fails with the NotFound kind both when the id
\* is empty and when no tank with that id exists, and that error is not the
\* InvalidInput one.
C12_GetTankFailsNotFound ==
    (ret.op = "GetTank" /\ (ret.id = "" \/ ~Has(tanks, ret.id))) =>
        (IsNotFound(ret.err) /\ ret.err # ErrInvalidTank)

\* C12 (amended): GetTank fails with InvalidTank, the InvalidInput kind,
\* when the id is empty, and with the NotFound kind when the id is not
\* empty and no tank with that id exists; the two errors differ.
C12_GetTankEmptyIDIsInvalid ==
    ret.op = "GetTank" =>
        /\ ret.id = "" => ret.err = ErrInvalidTank
        /\ (ret.id # "" /\ ~Has(tanks, ret.id)) =>
              (IsNotFound(ret.err) /\ ret.err # ErrInvalidTank)
        /\ (ret.id # "" /\ Has(tanks, ret.id)) => ret.err = NoErr

\* GetTank was called with an empty id while a tank is stored.
C12_Witness ==
    /\ ret.op = "GetTank"
    /\ ret.id = ""
    /\ ret.err = ErrInvalidTank
    /\ ~IsNotFound(ret.err)
    /\ Has(tanks, "t1")

(***************************************************************************)
(* C13: the tank as a projection of its most recent measurement            *)
(***************************************************************************)

\* The measurements of a history that carry its greatest timestamp.
MostRecent(h) ==
    { h[i] : i \in { j \in DOMAIN h :
                       \A k \in DOMAIN h : h[k].Timestamp <= h[j].Timestamp } }

ShowsMeasurement(tank, m) ==
    /\ tank.CurrentLevel = m.Level
    /\ tank.Temperature = m.Temperature

C14_StoredTanksAreValid ==
    \A id \in DOMAIN tanks :
        /\ tanks[id].Capacity > 0
        /\ tanks[id].Name # ""
        /\ tanks[id].AlertThreshold > 0

(***************************************************************************)
(* C15: the ingestion invariant under concurrent DeleteTank                *)
(***************************************************************************)

\* C15: at the step that writes a measurement to the measurement store,
\* its level is not negative, its tank_id is not empty and the tank is in
\* the tank store, in every interleaving with concurrent calls, so that no
\* measurement is stored for a tank that was already deleted.
C15_MeasurementWrittenForStoredTank ==
    [][ measurements' # measurements =>
          \E t \in Threads :
              /\ Proc(t).pc = "am_save"
              /\ procs'[t] # procs[t]
              /\ Proc(t).m.Level >= 0
              /\ Proc(t).m.TankID # ""
              /\ Has(tanks, Proc(t).m.TankID)
      ]_vars

(***************************************************************************)
(* C16: the read operations leave the stores alone                         *)
(***************************************************************************)

ReadOps == {"GetTank", "GetAllTanks", "GetTankStatus", "MonitorTank"}

IsReadStep ==
    /\ ret'.op \in ReadOps
    /\ (ret' # ret \/ tanks' # tanks \/ measurements' # measurements)

\* C16: GetTank, GetAllTanks, GetTankStatus and MonitorTank leave the tank
\* store and the measurement store exactly as they were; the projection
\* they compute is not persisted.
C16_ReadsLeaveStoresUnchanged ==
    [][ IsReadStep => (tanks' = tanks /\ measurements' = measurements) ]_vars

\* GetAllTanks has returned a tank with the level of its last measurement
\* while the store still holds the tank with another level.
C16_Witness ==
    /\ ret.op = "GetAllTanks"
    /\ Len(ret.list) = 1
    /\ Has(tanks, ret.list[1].ID)
    /\ History(measurements, ret.list[1].ID) # <<>>
    /\ ret.list[1].CurrentLevel = History(measurements, ret.list[1].ID)[1].Level
    /\ ret.list[1].CurrentLevel # tanks[ret.list[1].ID].CurrentLevel

(***************************************************************************)
(* C17: GetTank is idempotent                                              *)
(***************************************************************************)

\* C17: after GetTank(id) has returned, as long as only time passes and
\* read operations are called, GetTank(id) returns the same result again:
\* a second GetTank(id) that follows directly or after a lapse of time
\* returns the recorded error and tank, and after any other read operation
\* the call would still return them.
C17_GetTankTwiceReturnsSame ==
    [][ (ret.op = "GetTank" /\ ret'.op \in ReadOps) =>
          /\ (ret'.op = "GetTank" /\ ret'.id = ret.id) =>
                (ret'.err = ret.err /\ ret'.out = ret.out)
          /\ GetTankResult(tanks', measurements', ret.id) =
                [tank |-> ret.out, err |-> ret.err]
      ]_vars

\* GetTank has returned a projected tank, different from the stored one,
\* after time has passed since its last measurement was taken.
C17_Witness ==
    /\ ret.op = "GetTank"
    /\ ret.err = NoErr
    /\ History(measurements, ret.id) # <<>>
    /\ ret.out # tanks[ret.id]
    /\ ret.out.LastUpdated < now
    /\ now = MaxTime

(***************************************************************************)
(* C18: DeleteTank does not cascade                                        *)
(***************************************************************************)

IsDeleteTankStep ==
    /\ ret'.op = "DeleteTank"
    /\ (ret' # ret \/ tanks' # tanks \/ measurements' # measurements)

\* C18: DeleteTank leaves the measurement store unchanged, whether it
\* succeeds or fails: the history of the deleted tank stays, orphaned.
C18_DeleteTankKeepsMeasurements ==
    [][ IsDeleteTankStep => measurements' = measurements ]_vars

\* A tank with a full history was deleted and the history is still there.
C18_Witness ==
    /\ ret.op = "DeleteTank"
    /\ ret.err = NoErr
    /\ ~Has(tanks, ret.id)
    /\ Len(History(measurements, ret.id)) = MaxHist

(***************************************************************************)
(* AliasSpec: the repositories with their pointers.                        *)
(*                                                                         *)
(* Both repositories keep pointers (map[string]*domain.Tank,               *)
(* map[string][]*domain.Measurement) and take and return pointers.  Here   *)
(* heap.objs maps an address to the struct stored there, heap.tanks and    *)
(* heap.measurements are the two maps with addresses as their values, and  *)
(* heap.held is the set of addresses a caller of the repository holds:     *)
(* objects it built itself and objects a repository returned to it.        *)
(* Objects nobody refers to are collected.                                 *)
(***************************************************************************)

Addrs == 1..MaxObjs

Elems(s) == { s[i] : i \in DOMAIN s }

\* The addresses the repositories refer to.
StoredAddrs(h) ==
    { h.tanks[id] : id \in DOMAIN h.tanks }
        \cup UNION { Elems(h.measurements[id]) : id \in DOMAIN h.measurements }

\* The garbage collector: only referenced objects stay.
Collect(h) ==
    [h EXCEPT !.objs = [a \in (h.held \cup StoredAddrs(h)) |-> h.objs[a]]]

FreeAddrs(h) == Addrs \ DOMAIN h.objs

NewAddr(h) == CHOOSE a \in FreeAddrs(h) : \A b \in FreeAddrs(h) : a <= b

\* copy := *p; &copy handed to the caller
RECURSIVE CopyToCaller(_, _)
CopyToCaller(h, ptrs) ==
    IF ptrs = <<>>
    THEN h
    ELSE LET b == NewAddr(h)
         IN  CopyToCaller([h EXCEPT !.objs = Put(h.objs, b, h.objs[Head(ptrs)]),
                                    !.held = @ \cup {b}],
                          Tail(ptrs))

IsTankObj(h, a) == "CurrentLevel" \in DOMAIN h.objs[a]

IsMeasurementObj(h, a) == "Level" \in DOMAIN h.objs[a]

\* The stores as the values behind their pointers.
StoredTanks(h) == [id \in DOMAIN h.tanks |-> h.objs[h.tanks[id]]]

StoredMeasurements(h) ==
    [id \in DOMAIN h.measurements |->
        [i \in DOMAIN h.measurements[id] |-> h.objs[h.measurements[id][i]]]]

\* The level a caller writes into an object it holds.
MutatedLevel == 50

\* A caller builds a tank (createTestTank).
NewTank(tank) ==
    /\ FreeAddrs(heap) # {}
    /\ heap' = [heap EXCEPT !.objs = Put(heap.objs, NewAddr(heap), tank),
                            !.held = @ \cup {NewAddr(heap)}]
    /\ UNCHANGED <<tanks, measurements, now, ret, procs>>

\* A caller builds a measurement (createTestMeasurement).
NewMeasurement(measurement) ==
    /\ FreeAddrs(heap) # {}
    /\ heap' = [heap EXCEPT !.objs = Put(heap.objs, NewAddr(heap), measurement),
                            !.held = @ \cup {NewAddr(heap)}]
    /\ UNCHANGED <<tanks, measurements, now, ret, procs>>

\* A caller drops a reference.
Release(a) ==
    /\ a \in heap.held
    /\ heap' = Collect([heap EXCEPT !.held = @ \ {a}])
    /\ UNCHANGED <<tanks, measurements, now, ret, procs>>

\* A caller assigns to a field of an object it holds.
Mutate(a) ==
    /\ a \in heap.held
    /\ heap' = [heap EXCEPT
                  !.objs[a] = IF IsTankObj(heap, a)
                              THEN [@ EXCEPT !.CurrentLevel = MutatedLevel]
                              ELSE [@ EXCEPT !.Level = MutatedLevel]]
    /\ UNCHANGED <<tanks, measurements, now, ret, procs>>

\* Mutant: the repository keeps the caller's pointer.
PtrSaveTank_KeepsPointer(a) ==
    /\ a \in heap.held
    /\ IsTankObj(heap, a)
    /\ FreeAddrs(heap) # {}
    /\ LET tank == StampIfZero(heap.objs[a], now)
       IN  heap' = Collect([heap EXCEPT !.objs[a] = tank,
                                        !.tanks = Put(heap.tanks, tank.ID, a)])
    /\ UNCHANGED <<tanks, measurements, now, ret, procs>>

\* MemoryTankRepository.SaveTank on a pointer: the caller's object is
\* stamped if its LastUpdated is zero, and the address of a copy is stored.
PtrSaveTank(a) ==
    /\ a \in heap.held
    /\ IsTankObj(heap, a)
    /\ FreeAddrs(heap) # {}
    /\ LET tank == StampIfZero(heap.objs[a], now)
           tankCopy == NewAddr(heap)
       IN  heap' = Collect([heap EXCEPT
                              !.objs = Put([heap.objs EXCEPT ![a] = tank],
                                           tankCopy, tank),
                              !.tanks = Put(heap.tanks, tank.ID, tankCopy)])
    /\ UNCHANGED <<tanks, measurements, now, ret, procs>>

\* MemoryTankRepository.UpdateTank on a pointer.
PtrUpdateTank(a) ==
    /\ a \in heap.held
    /\ IsTankObj(heap, a)
    /\ FreeAddrs(heap) # {}
    /\ IF ~Has(heap.tanks, heap.objs[a].ID)
       THEN heap' = heap
       ELSE LET tank == StampIfZero(heap.objs[a], now)
                tankCopy == NewAddr(heap)
            IN  heap' = Collect([heap EXCEPT
                                   !.objs = Put([heap.objs EXCEPT ![a] = tank],
                                                tankCopy, tank),
                                   !.tanks = Put(heap.tanks, tank.ID, tankCopy)])
    /\ UNCHANGED <<tanks, measurements, now, ret, procs>>

\* MemoryTankRepository.GetTank: the address of a copy is returned.
PtrGetTank(id) ==
    /\ FreeAddrs(heap) # {}
    /\ heap' = IF Has(heap.tanks, id)
               THEN CopyToCaller(heap, <<heap.tanks[id]>>)
               ELSE heap
    /\ UNCHANGED <<tanks, measurements, now, ret, procs>>

\* MemoryTankRepository.GetAllTanks: a copy of every stored tank.
PtrGetAllTanks ==
    /\ Cardinality(FreeAddrs(heap)) >= Cardinality(DOMAIN heap.tanks)
    /\ \E o \in Orderings(DOMAIN heap.tanks) :
          heap' = CopyToCaller(heap, [i \in DOMAIN o |-> heap.tanks[o[i]]])
    /\ UNCHANGED <<tanks, measurements, now, ret, procs>>

\* MemoryMeasurementRepository.SaveMeasurement on a pointer: the caller's
\* object is stamped if its Timestamp is zero, the address of a copy is
\* appended, and the slice of pointers is sorted.
PtrSaveMeasurement(a) ==
    /\ a \in heap.held
    /\ IsMeasurementObj(heap, a)
    /\ FreeAddrs(heap) # {}
    /\ Len(History(heap.measurements, heap.objs[a].TankID)) < MaxHist
    /\ LET measurement == IF heap.objs[a].Timestamp = 0
                          THEN [heap.objs[a] EXCEPT !.Timestamp = now]
                          ELSE heap.objs[a]
           measurementCopy == NewAddr(heap)
           objs == Put([heap.objs EXCEPT ![a] = measurement],
                       measurementCopy, measurement)
           appended == Append(History(heap.measurements, measurement.TankID),
                              measurementCopy)
       IN  \E o \in Orderings(DOMAIN appended) :
              /\ IsSortedDesc([i \in DOMAIN o |-> objs[appended[o[i]]]])
              /\ heap' = [heap EXCEPT
                            !.objs = objs,
                            !.measurements =
                                Put(heap.measurements, measurement.TankID,
                                    [i \in DOMAIN o |-> appended[o[i]]])]
    /\ UNCHANGED <<tanks, measurements, now, ret, procs>>

\* MemoryMeasurementRepository.GetLastMeasurement: a copy of the first.
PtrGetLastMeasurement(tankID) ==
    /\ FreeAddrs(heap) # {}
    /\ heap' = IF History(heap.measurements, tankID) # <<>>
               THEN CopyToCaller(heap, <<heap.measurements[tankID][1]>>)
               ELSE heap
    /\ UNCHANGED <<tanks, measurements, now, ret, procs>>

\* MemoryMeasurementRepository.GetMeasurementsByTankID: copies of the first
\* limit measurements, of all of them if limit is 0 or too large.
PtrGetMeasurementsByTankID(tankID, limit) ==
    LET all == History(heap.measurements, tankID)
        result == IF limit > 0 /\ limit < Len(all) THEN SubSeq(all, 1, limit) ELSE all
    IN  /\ tankID # ""
        /\ Cardinality(FreeAddrs(heap)) >= Len(result)
        /\ heap' = CopyToCaller(heap, result)
        /\ UNCHANGED <<tanks, measurements, now, ret, procs>>

AliasTankInputs == { TankA }

AliasMeasurementInputs == { MeasurementM }

AliasNext ==
    \/ \E t \in AliasTankInputs : NewTank(t)
    \/ \E m \in AliasMeasurementInputs : NewMeasurement(m)
    \/ \E a \in Addrs : Release(a)
    \/ \E a \in Addrs : Mutate(a)
    \/ \E a \in Addrs : PtrSaveTank(a)
    \/ \E a \in Addrs : PtrUpdateTank(a)
    \/ \E id \in ConcTankIDs : PtrGetTank(id)
    \/ PtrGetAllTanks
    \/ \E a \in Addrs : PtrSaveMeasurement(a)
    \/ \E id \in ConcTankIDs : PtrGetLastMeasurement(id)
    \/ \E id \in ConcTankIDs : \E limit \in 0..1 :
          PtrGetMeasurementsByTankID(id, limit)

AliasSpec == Init /\ [][AliasNext]_vars

(***************************************************************************)
(* C19: entities cross the repository boundary as independent copies       *)
(***************************************************************************)

\* A caller has assigned to a field of an object it holds.
IsMutateStep ==
    /\ heap'.tanks = heap.tanks
    /\ heap'.measurements = heap.measurements
    /\ heap'.held = heap.held
    /\ \E a \in heap.held : heap'.objs[a] # heap.objs[a]

\* C19: when a caller assigns to a Tank or Measurement it holds, whether a
\* repository returned it or the caller passed it to SaveTank, UpdateTank
\* or SaveMeasurement before, the tanks and measurements the repositories
\* store keep their values: no stored pointer is held by a caller.
C19_CallerMutationLeavesStoreAlone ==
    [][ IsMutateStep =>
          /\ StoredTanks(heap') = StoredTanks(heap)
          /\ StoredMeasurements(heap') = StoredMeasurements(heap)
      ]_vars

\* A caller has changed the level of a tank and of a measurement it holds,
\* both stored under the same key with their old levels.
C19_Witness ==
    /\ \E a \in heap.held :
          /\ IsTankObj(heap, a)
          /\ heap.objs[a].CurrentLevel = MutatedLevel
          /\ heap.objs[a].LastUpdated # 0
          /\ Has(heap.tanks, heap.objs[a].ID)
          /\ StoredTanks(heap)[heap.objs[a].ID].CurrentLevel # MutatedLevel
    /\ \E a \in heap.held :
          /\ IsMeasurementObj(heap, a)
          /\ heap.objs[a].Level = MutatedLevel
          /\ Has(heap.measurements, heap.objs[a].TankID)
          /\ \A i \in DOMAIN heap.measurements[heap.objs[a].TankID] :
                StoredMeasurements(heap)[heap.objs[a].TankID][i].Level # MutatedLevel

(***************************************************************************)
(* FaultSpec: the service over collaborators that can fail.                *)
(*                                                                         *)
(* TankServiceImpl is written against the ports TankRepository,            *)
(* MeasurementRepository and AlertNotifier.  Here every service call is    *)
(* made with a set f of collaborator methods that are unavailable during   *)
(* the call: such a method returns ErrDependency and does nothing, the     *)
(* others behave as the in-memory repositories.  The result of a call      *)
(* carries, in failed, the collaborator calls that returned an error.      *)
(***************************************************************************)

ErrDependency == "storage unavailable"

CollaboratorCalls ==
    { "tankRepo.GetTank", "tankRepo.GetAllTanks", "tankRepo.SaveTank",
      "tankRepo.UpdateTank", "tankRepo.DeleteTank",
      "measurementRepo.SaveMeasurement", "measurementRepo.GetLastMeasurement",
      "notifier.SendAlert" }

\* No method fails, or one does.
FaultSets == { {} } \cup { {c} : c \in CollaboratorCalls }

Failure(call, err) ==
    IF err = NoErr THEN {} ELSE { [call |-> call, err |-> err] }

TankRepoGetTank(ts, id, f) ==
    IF "tankRepo.GetTank" \in f
    THEN [tank |-> NilTank, err |-> ErrDependency]
    ELSE RepoGetTank(ts, id)

TankRepoGetAllTanks(ts, f) ==
    IF "tankRepo.GetAllTanks" \in f
    THEN { [tanks |-> <<>>, err |-> ErrDependency] }
    ELSE { [tanks |-> all, err |-> NoErr] : all \in RepoGetAllTanks(ts) }

TankRepoSaveTank(ts, tank, clock, f) ==
    IF "tankRepo.SaveTank" \in f
    THEN [tanks |-> ts, err |-> ErrDependency]
    ELSE SaveTank(ts, tank, clock)

TankRepoUpdateTank(ts, tank, clock, f) ==
    IF "tankRepo.UpdateTank" \in f
    THEN [tanks |-> ts, err |-> ErrDependency]
    ELSE RepoUpdateTank(ts, tank, clock)

TankRepoDeleteTank(ts, id, f) ==
    IF "tankRepo.DeleteTank" \in f
    THEN [tanks |-> ts, err |-> ErrDependency]
    ELSE RepoDeleteTank(ts, id)

MeasurementRepoSaveMeasurement(ms, measurement, clock, f) ==
    IF "measurementRepo.SaveMeasurement" \in f
    THEN { [measurements |-> ms, err |-> ErrDependency] }
    ELSE SaveMeasurement(ms, measurement, clock)

MeasurementRepoGetLastMeasurement(ms, tankID, f) ==
    IF "measurementRepo.GetLastMeasurement" \in f
    THEN [m |-> NilMeasurement, err |-> ErrDependency]
    ELSE GetLastMeasurement(ms, tankID)

NotifierSendAlert(f) ==
    IF "notifier.SendAlert" \in f THEN ErrNotifier ELSE NoErr

\* GetTank, lines 40-64.
GetTankUnder(ts, ms, id, f) ==
    IF id = ""
    THEN [tank |-> NilTank, err |-> ErrInvalidTank, failed |-> {}]
    ELSE LET got == TankRepoGetTank(ts, id, f)
         IN  IF got.err # NoErr
             THEN [tank |-> NilTank, err |-> got.err,
                   failed |-> Failure("tankRepo.GetTank", got.err)]
             ELSE IF got.tank = NilTank
                  THEN [tank |-> NilTank, err |-> ErrTankNotFound, failed |-> {}]
                  ELSE LET last == MeasurementRepoGetLastMeasurement(ms, id, f)
                       IN  [tank |-> OverlayLastMeasurement(got.tank, last),
                            err |-> NoErr,
                            failed |-> Failure("measurementRepo.GetLastMeasurement",
                                               last.err)]

\* GetAllTanks, lines 67-85.
GetAllTanksUnder(ts, ms, f) ==
    { IF all.err # NoErr
      THEN [tanks |-> <<>>, err |-> all.err,
            failed |-> Failure("tankRepo.GetAllTanks", all.err)]
      ELSE [tanks |-> [i \in DOMAIN all.tanks |->
                          OverlayLastMeasurement(all.tanks[i],
                              MeasurementRepoGetLastMeasurement(ms, all.tanks[i].ID, f))],
            err |-> NoErr,
            failed |-> UNION { Failure("measurementRepo.GetLastMeasurement",
                                   MeasurementRepoGetLastMeasurement(
                                       ms, all.tanks[i].ID, f).err)
                               : i \in DOMAIN all.tanks }]
      : all \in TankRepoGetAllTanks(ts, f) }

\* GetTankStatus, lines 205-212.
GetTankStatusUnder(ts, ms, tankID, f) ==
    LET got == GetTankUnder(ts, ms, tankID, f)
    IN  IF got.err # NoErr
        THEN [status |-> "", err |-> got.err, failed |-> got.failed]
        ELSE [status |-> got.tank.Status, err |-> NoErr, failed |-> got.failed]

\* Mutant: a failure of the notifier is logged away and nil is returned.
MonitorTankUnder_SwallowsNotifierError(ts, ms, tankID, f) ==
    LET got == GetTankUnder(ts, ms, tankID, f)
    IN  IF got.err # NoErr
        THEN [err |-> got.err, alerts |-> <<>>, failed |-> got.failed]
        ELSE IF IsLevelCritical(got.tank)
             THEN [err |-> NoErr,
                   alerts |-> <<Alert(tankID, got.tank)>>,
                   failed |-> got.failed
                       \cup Failure("notifier.SendAlert", NotifierSendAlert(f))]
             ELSE [err |-> NoErr, alerts |-> <<>>, failed |-> got.failed]

\* MonitorTank, lines 146-162.
MonitorTankUnder(ts, ms, tankID, f) ==
    LET got == GetTankUnder(ts, ms, tankID, f)
    IN  IF got.err # NoErr
        THEN [err |-> got.err, alerts |-> <<>>, failed |-> got.failed]
        ELSE IF IsLevelCritical(got.tank)
             THEN [err |-> NotifierSendAlert(f),
                   alerts |-> <<Alert(tankID, got.tank)>>,
                   failed |-> got.failed
                       \cup Failure("notifier.SendAlert", NotifierSendAlert(f))]
             ELSE [err |-> NoErr, alerts |-> <<>>, failed |-> got.failed]

\* CreateTank, lines 88-101.
CreateTankUnder(ts, tank, clock, f) ==
    IF tank = NilTank \/ tank.Name = "" \/ tank.Capacity <= 0
    THEN [tanks |-> ts, err |-> ErrInvalidTank, failed |-> {}]
    ELSE LET saved == TankRepoSaveTank(ts, CreateDefaults(tank, clock), clock, f)
         IN  [tanks |-> saved.tanks, err |-> saved.err,
              failed |-> Failure("tankRepo.SaveTank", saved.err)]

\* UpdateTank, lines 104-124.
UpdateTankUnder(ts, tank, clock, f) ==
    IF tank = NilTank \/ tank.ID = ""
    THEN [tanks |-> ts, err |-> ErrInvalidTank, failed |-> {}]
    ELSE LET existing == TankRepoGetTank(ts, tank.ID, f)
         IN  IF existing.err # NoErr
             THEN [tanks |-> ts, err |-> existing.err,
                   failed |-> Failure("tankRepo.GetTank", existing.err)]
             ELSE IF existing.tank = NilTank
                  THEN [tanks |-> ts, err |-> ErrTankNotFound, failed |-> {}]
                  ELSE LET upd == TankRepoUpdateTank(ts,
                                      [UpdateStatus(tank) EXCEPT !.LastUpdated = clock],
                                      clock, f)
                       IN  [tanks |-> upd.tanks, err |-> upd.err,
                            failed |-> Failure("tankRepo.UpdateTank", upd.err)]

\* DeleteTank, lines 127-143.
DeleteTankUnder(ts, id, f) ==
    IF id = ""
    THEN [tanks |-> ts, err |-> ErrInvalidTank, failed |-> {}]
    ELSE LET existing == TankRepoGetTank(ts, id, f)
         IN  IF existing.err # NoErr
             THEN [tanks |-> ts, err |-> existing.err,
                   failed |-> Failure("tankRepo.GetTank", existing.err)]
             ELSE IF existing.tank = NilTank
                  THEN [tanks |-> ts, err |-> ErrTankNotFound, failed |-> {}]
                  ELSE LET del == TankRepoDeleteTank(ts, id, f)
                       IN  [tanks |-> del.tanks, err |-> del.err,
                            failed |-> Failure("tankRepo.DeleteTank", del.err)]

\* AddMeasurement, lines 165-202.
AddMeasurementUnder(ts, ms, measurement, clock, f) ==
    IF InvalidMeasurement(measurement)
    THEN { [tanks |-> ts, measurements |-> ms, err |-> ErrInvalidMeasurement,
            alerts |-> <<>>, failed |-> {}] }
    ELSE LET got == TankRepoGetTank(ts, measurement.TankID, f)
         IN  IF got.err # NoErr
             THEN { [tanks |-> ts, measurements |-> ms, err |-> got.err,
                     alerts |-> <<>>,
                     failed |-> Failure("tankRepo.GetTank", got.err)] }
             ELSE IF got.tank = NilTank
                  THEN { [tanks |-> ts, measurements |-> ms,
                          err |-> ErrTankNotFound, alerts |-> <<>>, failed |-> {}] }
                  ELSE LET stamped ==
                               IF measurement.Timestamp = 0
                               THEN [measurement EXCEPT !.Timestamp = clock]
                               ELSE measurement
                       IN  { IF saved.err # NoErr
                             THEN [tanks |-> ts, measurements |-> saved.measurements,
                                   err |-> saved.err, alerts |-> <<>>,
                                   failed |-> Failure("measurementRepo.SaveMeasurement",
                                                      saved.err)]
                             ELSE LET upd == TankRepoUpdateTank(ts,
                                                 ApplyMeasurement(got.tank, stamped),
                                                 clock, f)
                                      mon == MonitorTankUnder(upd.tanks,
                                                 saved.measurements,
                                                 measurement.TankID, f)
                                  IN  IF upd.err # NoErr
                                      THEN [tanks |-> upd.tanks,
                                            measurements |-> saved.measurements,
                                            err |-> upd.err, alerts |-> <<>>,
                                            failed |-> Failure("tankRepo.UpdateTank",
                                                               upd.err)]
                                      ELSE [tanks |-> upd.tanks,
                                            measurements |-> saved.measurements,
                                            err |-> mon.err, alerts |-> mon.alerts,
                                            failed |-> mon.failed]
                             : saved \in MeasurementRepoSaveMeasurement(
                                             ms, stamped, clock, f) }

GetTankCall(id, f) ==
    LET r == GetTankUnder(tanks, measurements, id, f)
    IN  /\ ret' = [NoCall EXCEPT !.op = "GetTank", !.id = id, !.err = r.err,
                                 !.out = r.tank, !.failed = r.failed]
        /\ UNCHANGED <<tanks, measurements, now, procs, heap>>

GetAllTanksCall(f) ==
    \E r \in GetAllTanksUnder(tanks, measurements, f) :
        /\ ret' = [NoCall EXCEPT !.op = "GetAllTanks", !.err = r.err,
                                 !.list = r.tanks, !.failed = r.failed]
        /\ UNCHANGED <<tanks, measurements, now, procs, heap>>

GetTankStatusCall(tankID, f) ==
    LET r == GetTankStatusUnder(tanks, measurements, tankID, f)
    IN  /\ ret' = [NoCall EXCEPT !.op = "GetTankStatus", !.id = tankID,
                                 !.err = r.err, !.status = r.status,
                                 !.failed = r.failed]
        /\ UNCHANGED <<tanks, measurements, now, procs, heap>>

MonitorTankCall(tankID, f) ==
    LET r == MonitorTankUnder(tanks, measurements, tankID, f)
    IN  /\ ret' = [NoCall EXCEPT !.op = "MonitorTank", !.id = tankID,
                                 !.err = r.err, !.alerts = r.alerts,
                                 !.failed = r.failed]
        /\ UNCHANGED <<tanks, measurements, now, procs, heap>>

CreateTankCall(tank, f) ==
    LET r == CreateTankUnder(tanks, tank, now, f)
    IN  /\ tanks' = r.tanks
        /\ ret' = [NoCall EXCEPT !.op = "CreateTank", !.id = tank.ID,
                                 !.err = r.err, !.failed = r.failed]
        /\ UNCHANGED <<measurements, now, procs, heap>>

UpdateTankCall(tank, f) ==
    LET r == UpdateTankUnder(tanks, tank, now, f)
    IN  /\ tanks' = r.tanks
        /\ ret' = [NoCall EXCEPT !.op = "UpdateTank", !.id = tank.ID,
                                 !.err = r.err, !.failed = r.failed]
        /\ UNCHANGED <<measurements, now, procs, heap>>

DeleteTankCall(id, f) ==
    LET r == DeleteTankUnder(tanks, id, f)
    IN  /\ tanks' = r.tanks
        /\ ret' = [NoCall EXCEPT !.op = "DeleteTank", !.id = id,
                                 !.err = r.err, !.failed = r.failed]
        /\ UNCHANGED <<measurements, now, procs, heap>>

AddMeasurementCall(measurement, f) ==
    /\ Len(History(measurements, measurement.TankID)) < MaxHist
    /\ \E r \in AddMeasurementUnder(tanks, measurements, measurement, now, f) :
          /\ tanks' = r.tanks
          /\ measurements' = r.measurements
          /\ ret' = [NoCall EXCEPT !.op = "AddMeasurement",
                                   !.id = measurement.TankID, !.m = measurement,
                                   !.err = r.err,
                                   !.alerts = r.alerts, !.failed = r.failed]
    /\ UNCHANGED <<now, procs, heap>>

FaultNext ==
    \/ Tick
    \/ \E id \in TankIDs : \E f \in FaultSets : GetTankCall(id, f)
    \/ \E f \in FaultSets : GetAllTanksCall(f)
    \/ \E id \in TankIDs : \E f \in FaultSets : GetTankStatusCall(id, f)
    \/ \E id \in TankIDs : \E f \in FaultSets : MonitorTankCall(id, f)
    \/ \E t \in ConcTankInputs : \E f \in FaultSets : CreateTankCall(t, f)
    \/ \E t \in ConcTankInputs : \E f \in FaultSets : UpdateTankCall(t, f)
    \/ \E id \in TankIDs : \E f \in FaultSets : DeleteTankCall(id, f)
    \/ \E m \in ConcMeasurementInputs : \E f \in FaultSets : AddMeasurementCall(m, f)

FaultSpec == Init /\ [][FaultNext]_vars

(***************************************************************************)
(* C20: collaborator failures reach the caller                             *)
(***************************************************************************)

\* C20: every error a repository or the notifier returns during a service
\* call is the error the call returns, never swallowed, with the single
\* exception of a failing fetch of a tank's latest measurement inside
\* GetAllTanks; in particular a failing fetch of the latest measurement
\* inside GetTank makes GetTank fail.
C20_CollaboratorFailuresReachCaller ==
    \A x \in ret.failed :
        \/ ret.err = x.err
        \/ (ret.op = "GetAllTanks" /\ x.call = "measurementRepo.GetLastMeasurement")

(***************************************************************************)
(* CtxSpec: the mutating operations called with a context.                 *)
(*                                                                         *)
(* Every operation of TankServiceImpl takes a context.Context and hands it *)
(* to the repositories and to the notifier.  The service never reads it    *)
(* (no ctx.Err(), no ctx.Done()), and neither do the in-memory             *)
(* repositories nor the notifier of cmd/api: what a call does is what it   *)
(* does without the context.  The context of the call is recorded in ret.  *)
(***************************************************************************)

\* context.Background(), and a context whose cancel function was called.
Contexts == {"background", "canceled"}

CreateTankCtx(ctx, tank) ==
    LET r == CreateTankResult(tanks, tank, now)
    IN  /\ tanks' = r.tanks
        /\ ret' = [NoCall EXCEPT !.op = "CreateTank", !.id = tank.ID,
                                 !.in = tank, !.err = r.err, !.ctx = ctx]
        /\ UNCHANGED <<measurements, now, procs, heap>>

UpdateTankCtx(ctx, tank) ==
    LET r == UpdateTankResult(tanks, tank, now)
    IN  /\ tanks' = r.tanks
        /\ ret' = [NoCall EXCEPT !.op = "UpdateTank", !.id = tank.ID,
                                 !.in = tank, !.err = r.err, !.ctx = ctx]
        /\ UNCHANGED <<measurements, now, procs, heap>>

DeleteTankCtx(ctx, id) ==
    LET r == DeleteTankResult(tanks, id)
    IN  /\ tanks' = r.tanks
        /\ ret' = [NoCall EXCEPT !.op = "DeleteTank", !.id = id,
                                 !.err = r.err, !.ctx = ctx]
        /\ UNCHANGED <<measurements, now, procs, heap>>

AddMeasurementCtx(ctx, measurement, notifierErr) ==
    /\ Len(History(measurements, measurement.TankID)) < MaxHist
    /\ \E r \in AddMeasurementResults(tanks, measurements, measurement, now,
                                       notifierErr) :
          /\ tanks' = r.tanks
          /\ measurements' = r.measurements
          /\ ret' = [NoCall EXCEPT !.op = "AddMeasurement",
                                   !.id = measurement.TankID,
                                   !.m = measurement, !.err = r.err,
                                   !.alerts = r.alerts, !.ctx = ctx]
    /\ UNCHANGED <<now, procs, heap>>

CtxNext ==
    \/ \E ctx \in Contexts : \E t \in ConcTankInputs : CreateTankCtx(ctx, t)
    \/ \E ctx \in Contexts : \E t \in ConcTankInputs : UpdateTankCtx(ctx, t)
    \/ \E ctx \in Contexts : \E id \in ConcTankIDs : DeleteTankCtx(ctx, id)
    \/ \E ctx \in Contexts : \E m \in ConcMeasurementInputs :
          \E ne \in NotifierOutcomes : AddMeasurementCtx(ctx, m, ne)

CtxSpec == Init /\ [][CtxNext]_vars

(***************************************************************************)
(* C21: cancellation                                                       *)
(***************************************************************************)

\* context.Canceled
ErrCanceled == "context canceled"

\* C21: CreateTank, UpdateTank, DeleteTank and AddMeasurement called with an
\* already cancelled context return a cancellation error, leave the tank
\* store and the measurement store unchanged and send no alert.
C21_CancelledCallChangesNothing ==
    [][ (ret'.ctx = "canceled" /\ ret' # ret) =>
          /\ ret'.err = ErrCanceled
          /\ tanks' = tanks
          /\ measurements' = measurements
          /\ ret'.alerts = <<>>
      ]_vars

(***************************************************************************)
(* MultiSpec: several tanks, created through the service and through the   *)
(* HTTP handler.                                                           *)
(***************************************************************************)

MultiTankIDs == {"", "t1", "t2"}

\* A second tank, and a tank whose ID the caller left empty.
TankC == [TankA EXCEPT !.ID = "t2", !.Name = "C", !.CurrentLevel = 800]

TankNoID == [TankA EXCEPT !.ID = ""]

MultiTankInputs == {TankA, TankB, TankC, TankNoID}

MultiMeasurementInputs ==
    { MeasurementM,
      [MeasurementM EXCEPT !.ID = "m2", !.TankID = "t2", !.Level = 50] }

\* uuid.New().String(): some non-empty ID.
UUIDs == MultiTankIDs \ {""}

\* A request body that json.NewDecoder(r.Body).Decode rejects.
BadJSON == [malformed |-> TRUE]

\* The response of a handler after its service call: every error of the
\* service is answered with http.StatusInternalServerError, success with
\* the handler's own status.  (Encoding a decoded tank or measurement does
\* not fail.)
Respond(err, success) ==
    IF err # NoErr THEN "StatusInternalServerError" ELSE success

\* Mutant: the handler passes the decoded tank on as it is.
HandleCreateTank_KeepsEmptyID(tank, uuid) ==
    IF tank = BadJSON
    THEN /\ ret' = [NoCall EXCEPT !.op = "TankHandler.CreateTank",
                                  !.code = "StatusBadRequest"]
         /\ UNCHANGED <<tanks, measurements, now, procs, heap>>
    ELSE LET r == CreateTankResult(tanks, tank, now)
         IN  /\ tanks' = r.tanks
             /\ ret' = [NoCall EXCEPT !.op = "TankHandler.CreateTank",
                                      !.id = tank.ID, !.in = tank, !.err = r.err,
                                      !.code = Respond(r.err, "StatusCreated")]
             /\ UNCHANGED <<measurements, now, procs, heap>>

\* TankHandler.CreateTank, lines 85-112: a body that does not decode is
\* answered with http.StatusBadRequest; the decoded tank gets a new UUID if
\* its ID is empty and is handed to the service; ret.in is the decoded tank,
\* ret.id the ID it is created with, ret.code the status of the response.
HandleCreateTank(tank, uuid) ==
    IF tank = BadJSON
    THEN /\ ret' = [NoCall EXCEPT !.op = "TankHandler.CreateTank",
                                  !.code = "StatusBadRequest"]
         /\ UNCHANGED <<tanks, measurements, now, procs, heap>>
    ELSE LET withID == IF tank.ID = "" THEN [tank EXCEPT !.ID = uuid] ELSE tank
             r == CreateTankResult(tanks, withID, now)
         IN  /\ tanks' = r.tanks
             /\ ret' = [NoCall EXCEPT !.op = "TankHandler.CreateTank",
                                      !.id = withID.ID, !.in = tank, !.err = r.err,
                                      !.code = Respond(r.err, "StatusCreated")]
             /\ UNCHANGED <<measurements, now, procs, heap>>

MultiNext ==
    \/ \E t \in MultiTankInputs : CreateTank(t)
    \/ \E t \in MultiTankInputs : \E uuid \in UUIDs : HandleCreateTank(t, uuid)
    \/ \E m \in MultiMeasurementInputs : AddMeasurement(m, NoErr)
    \/ \E id \in MultiTankIDs : GetTank(id)
    \/ GetAllTanks

MultiSpec == Init /\ [][MultiNext]_vars

(***************************************************************************)
(* C22: tank IDs                                                           *)
(***************************************************************************)

IsHandleCreateTankStep ==
    /\ ret'.op = "TankHandler.CreateTank"
    /\ (ret' # ret \/ tanks' # tanks)

Count(h, x) == Cardinality({ i \in DOMAIN h : h[i] = x })

OrderedNewestFirst(h) ==
    \A i, j \in DOMAIN h : i < j => h[i].Timestamp >= h[j].Timestamp

\* C23: no step removes or alters a stored measurement (every measurement
\* of a history is in the history afterwards, as often as before), after
\* every step each history is ordered by timestamp descending, and
\* GetLastMeasurement returns a measurement of greatest timestamp of the
\* tank's history, or none when the history is empty.  (The store starts
\* empty, so the steps that change it are the ones to look at.)
C23_HistoryAppendOnlyNewestFirst ==
    [][ measurements' # measurements =>
          /\ DOMAIN measurements \subseteq DOMAIN measurements'
          /\ \A id \in DOMAIN measurements :
                \A i \in DOMAIN measurements[id] :
                    Count(measurements'[id], measurements[id][i])
                        >= Count(measurements[id], measurements[id][i])
          /\ \A id \in DOMAIN measurements' :
                OrderedNewestFirst(measurements'[id])
          /\ \A id \in MultiTankIDs \ {""} :
                LET h == History(measurements', id)
                    last == GetLastMeasurement(measurements', id)
                IN  /\ last.err = NoErr
                    /\ IF h = <<>>
                       THEN last.m = NilMeasurement
                       ELSE last.m \in MostRecent(h)
      ]_vars

\* A measurement older than the recorded one was added: the history holds
\* both, the newer one first, although it was stored first.
C23_Witness ==
    /\ ret.op = "AddMeasurement"
    /\ ret.err = NoErr
    /\ Len(History(measurements, ret.id)) = 2
    /\ History(measurements, ret.id)[2].Timestamp = ret.m.Timestamp
    /\ History(measurements, ret.id)[2].Level = ret.m.Level
    /\ History(measurements, ret.id)[1].Timestamp > ret.m.Timestamp
    /\ ret.m.Timestamp # 0

\* ---------------------------------------------------------------------------
\* Locking protocol of the two in-memory repositories.
\*
\* Every repository method takes its repository's sync.RWMutex on entry
\* (RLock for the reads, Lock for the writes) and releases it by a deferred
\* unlock when it returns; the service holds no lock of its own and the
\* notifier takes none.  A thread of an operation is the sequence of
\* collaborator calls the service makes for it; what a call found decides
\* only whether the operation goes on or returns, so that is a choice.
\* ---------------------------------------------------------------------------

\* The collaborator calls: the repository whose mutex a call takes, the
\* mode, and whether the service may return right after it (error, not
\* found, not critical) instead of making the next call.  The overlay of a
\* read ignores the outcome of its fetch: the service goes on whatever it
\* returned.
LockCalls ==
    LET Call(name, repo, mode, exit) ==
            [name |-> name, repo |-> repo, mode |-> mode, exit |-> exit]
    IN  [GetTank |-> Call("TankRepository.GetTank", "tank", "R", TRUE),
         GetAllTanks |-> Call("TankRepository.GetAllTanks", "tank", "R", TRUE),
         SaveTank |-> Call("TankRepository.SaveTank", "tank", "W", TRUE),
         UpdateTank |-> Call("TankRepository.UpdateTank", "tank", "W", TRUE),
         DeleteTank |-> Call("TankRepository.DeleteTank", "tank", "W", TRUE),
         SaveMeasurement |->
             Call("MeasurementRepository.SaveMeasurement", "measurement", "W", TRUE),
         GetLastMeasurement |->
             Call("MeasurementRepository.GetLastMeasurement", "measurement", "R", TRUE),
         GetLastForOverlay |->
             Call("MeasurementRepository.GetLastMeasurement", "measurement", "R", FALSE),
         SendAlert |-> Call("AlertNotifier.SendAlert", "notifier", "-", TRUE)]

\* The calls of each service operation, in the order the service makes
\* them.  GetTank and GetTankStatus read the tank and fetch its latest
\* measurement; MonitorTank does the same and returns without calling the
\* notifier when the level is not critical; a listing fetches the latest
\* measurement once per tank it found.
LockOps ==
    LET c == LockCalls
        GetTankCalls == <<c.GetTank, c.GetLastForOverlay>>
        MonitorTankCalls == <<c.GetTank, c.GetLastMeasurement, c.SendAlert>>
    IN  {[op |-> "GetTank", todo |-> GetTankCalls],
         [op |-> "GetTankStatus", todo |-> GetTankCalls],
         [op |-> "MonitorTank", todo |-> MonitorTankCalls],
         [op |-> "CreateTank", todo |-> <<c.SaveTank>>],
         [op |-> "UpdateTank", todo |-> <<c.GetTank, c.UpdateTank>>],
         [op |-> "DeleteTank", todo |-> <<c.GetTank, c.DeleteTank>>],
         [op |-> "AddMeasurement",
          todo |-> <<c.GetTank, c.SaveMeasurement, c.UpdateTank>>
                   \o MonitorTankCalls]}
        \cup {[op |-> "GetAllTanks",
               todo |-> <<c.GetAllTanks>> \o [i \in 1..n |-> c.GetLastForOverlay]]
              : n \in 0..MaxHist}

\* sync.RWMutex, from the locks the threads hold: a writer needs the mutex
\* free; a reader needs no writer holding it and none already blocked in
\* Lock (a pending writer shuts new readers out).
Holders(repo, mode) ==
    {t \in Threads : [repo |-> repo, mode |-> mode] \in procs[t].locks}

PendingWriters(repo) ==
    {t \in Threads : /\ procs[t].pc = "lock"
                     /\ Head(procs[t].todo).repo = repo
                     /\ Head(procs[t].todo).mode = "W"}

CanLock(t) ==
    LET c == Head(procs[t].todo)
    IN  IF c.mode = "W"
        THEN Holders(c.repo, "W") = {} /\ Holders(c.repo, "R") = {}
        ELSE Holders(c.repo, "W") = {} /\ PendingWriters(c.repo) \ {t} = {}

\* The thread's position before its next call: blocked in Lock/RLock for a
\* repository call, about to call the notifier, or returned.
Before(todo) ==
    IF todo = <<>> THEN "idle"
    ELSE IF Head(todo).repo = "notifier" THEN "notify" ELSE "lock"

\* Mutant: SaveMeasurement returns without releasing its mutex.
Unlock_NotInSaveMeasurement(p, c) ==
    IF c.name = "MeasurementRepository.SaveMeasurement"
    THEN p
    ELSE [p EXCEPT !.locks = @ \ {[repo |-> c.repo, mode |-> c.mode]}]

\* defer r.mutex.Unlock() / defer r.mutex.RUnlock()
Unlock(p, c) ==
    [p EXCEPT !.locks = @ \ {[repo |-> c.repo, mode |-> c.mode]}]

\* The service goes on with the rest of its calls, or returns.
GoOn(p, rest) ==
    IF rest = <<>>
    THEN [p EXCEPT !.pc = "idle", !.op = "none", !.todo = <<>>]
    ELSE [p EXCEPT !.pc = Before(rest), !.todo = rest]

\* A service operation is called and reaches its first collaborator call.
LockStart(t, o) ==
    /\ procs[t].pc = "idle"
    /\ procs' = [procs EXCEPT ![t] =
                    [@ EXCEPT !.pc = Before(o.todo), !.op = o.op, !.todo = o.todo]]
    /\ UNCHANGED <<tanks, measurements, now, ret, heap>>

\* r.mutex.Lock() / r.mutex.RLock() returns.
LockAcquire(t) ==
    /\ procs[t].pc = "lock"
    /\ CanLock(t)
    /\ LET c == Head(procs[t].todo)
       IN  procs' = [procs EXCEPT ![t] =
                        [@ EXCEPT !.pc = "body",
                                  !.locks = @ \cup {[repo |-> c.repo, mode |-> c.mode]}]]
    /\ UNCHANGED <<tanks, measurements, now, ret, heap>>

\* The repository method runs to its return, the deferred unlock runs, and
\* the service makes its next call or returns.
LockReturn(t) ==
    /\ procs[t].pc = "body"
    /\ LET c == Head(procs[t].todo)
           rest == Tail(procs[t].todo)
       IN  \E next \in {rest} \cup (IF c.exit THEN {<<>>} ELSE {}) :
               procs' = [procs EXCEPT ![t] = GoOn(Unlock(@, c), next)]
    /\ UNCHANGED <<tanks, measurements, now, ret, heap>>

\* s.alertNotifier.SendAlert returns and MonitorTank returns its outcome.
LockNotify(t) ==
    /\ procs[t].pc = "notify"
    /\ procs' = [procs EXCEPT ![t] = GoOn(@, Tail(@.todo))]
    /\ UNCHANGED <<tanks, measurements, now, ret, heap>>

LockNext ==
    \E t \in Threads :
        \/ \E o \in LockOps : LockStart(t, o)
        \/ LockAcquire(t)
        \/ LockReturn(t)
        \/ LockNotify(t)

LockSpec == Init /\ [][LockNext]_vars

\* Scheduling: a running goroutine keeps running (weak fairness of the
\* steps that wait for nothing), and sync.RWMutex hands the mutex to a
\* goroutine that has waited (starvation mode), so one that could take it
\* again and again does take it (strong fairness of the acquisition).
LockFairSpec ==
    /\ LockSpec
    /\ \A t \in Threads :
          /\ SF_vars(LockAcquire(t))
          /\ WF_vars(LockReturn(t))
          /\ WF_vars(LockNotify(t))

\* ---------------------------------------------------------------------------
\* C24
\* ---------------------------------------------------------------------------

Running(t) == procs[t].pc # "idle"

\* A thread holds at most one mutex, and none while it waits for a mutex
\* or calls the notifier.
NoNestedLocking ==
    \A t \in Threads :
        /\ Cardinality(procs[t].locks) <= 1
        /\ procs[t].pc \in {"idle", "lock", "notify"} => procs[t].locks = {}

\* Whenever an operation is running, some running operation can step.
NoDeadlock ==
    (\E t \in Threads : Running(t))
        => \E t \in Threads : Running(t) /\ (procs[t].pc = "lock" => CanLock(t))

\* C24: under any interleaving of the operations, with fair scheduling,
\* every operation that has started eventually returns; no operation holds
\* the mutex of one repository while it acquires another mutex or calls
\* the notifier; and the running operations are never all blocked.
C24_NoOperationBlocksForever ==
    /\ [](NoNestedLocking /\ NoDeadlock)
    /\ \A t \in Threads : Running(t) ~> ~Running(t)

\* One AddMeasurement is inside the write of the tank repository while
\* another is blocked on that mutex, after its own measurement write.
C24_Witness ==
    \E t, u \in Threads :
        /\ t # u
        /\ procs[t].op = "AddMeasurement" /\ procs[u].op = "AddMeasurement"
        /\ procs[t].pc = "body" /\ [repo |-> "tank", mode |-> "W"] \in procs[t].locks
        /\ procs[u].pc = "lock" /\ Head(procs[u].todo) = LockCalls.UpdateTank
        /\ ~CanLock(u)

\* ---------------------------------------------------------------------------
\* C25
\* ---------------------------------------------------------------------------

\* The listing last returned has exactly one entry per stored tank.
OneEntryPerStoredTank ==
    /\ Len(ret.list) = Cardinality(DOMAIN tanks)
    /\ \A id \in DOMAIN tanks :
          Cardinality({i \in DOMAIN ret.list : ret.list[i].ID = id}) = 1

\* The entry is what GetTank returns for its ID in this state.
AsGetTankReturns(entry) ==
    GetTankResult(tanks, measurements, entry.ID) = [tank |-> entry, err |-> NoErr]

MeasurementAndUpdateRemain(m, clock) ==
    /\ Len(History(measurements', m.TankID)) = Len(History(measurements, m.TankID)) + 1
    /\ \E i \in DOMAIN measurements'[m.TankID] :
          /\ measurements'[m.TankID][i].Level = m.Level
          /\ measurements'[m.TankID][i].Timestamp = EffectiveTimestamp(m, clock)
    /\ ShowsMeasurement(tanks'[m.TankID], m)
    /\ tanks'[m.TankID].LastUpdated = EffectiveTimestamp(m, clock)

\* The service with a notifier that can fail and repositories that do not:
\* the calls that reach the notifier, and CreateTank to have a tank.
NotifierNext ==
    \/ Tick
    \/ \E t \in ConcTankInputs : CreateTankCall(t, {})
    \/ \E id \in TankIDs : \E f \in { {}, {"notifier.SendAlert"} } :
          MonitorTankCall(id, f)
    \/ \E m \in ConcMeasurementInputs : \E f \in { {}, {"notifier.SendAlert"} } :
          AddMeasurementCall(m, f)

NotifierSpec == Init /\ [][NotifierNext]_vars

\* What the notifier returned in the call last made, if it was called.
NotifierOutcome(call) ==
    IF \E fl \in call.failed : fl.call = "notifier.SendAlert"
    THEN (CHOOSE fl \in call.failed : fl.call = "notifier.SendAlert").err
    ELSE NoErr

\* C26: MonitorTank calls the notifier at most once and returns its outcome
\* unchanged; when the notifier is called during AddMeasurement, the call
\* returns the notifier's outcome, and also with a failure of the notifier
\* the persisted measurement and the tank update remain in effect.  (Every
\* step but the passing of time is a call of the service.)
C26_NotifierOutcomeReturnedNoRollback ==
    [][ now' = now =>
          /\ ret'.op \in {"MonitorTank", "AddMeasurement"} =>
                /\ Len(ret'.alerts) <= 1
                /\ ret'.alerts # <<>> => ret'.err = NotifierOutcome(ret')
          /\ ret'.op = "AddMeasurement" /\ ret'.alerts # <<>> =>
                MeasurementAndUpdateRemain(ret'.m, now) ]_vars

\* AddMeasurement returned the notifier's failure, and the measurement is
\* in the history and shown by the stored tank.
C26_Witness ==
    /\ ret.op = "AddMeasurement"
    /\ ret.err = ErrNotifier
    /\ NotifierOutcome(ret) = ErrNotifier
    /\ Len(ret.alerts) = 1
    /\ \E i \in DOMAIN History(measurements, ret.id) :
          measurements[ret.id][i].Level = ret.m.Level
    /\ ShowsMeasurement(tanks[ret.id], ret.m)
    /\ tanks[ret.id].Status = "critical"

\* ---------------------------------------------------------------------------
\* C27
\* ---------------------------------------------------------------------------

\* C27: a CreateTank of a valid tank whose ID is already stored succeeds;
\* the stored entry afterwards is made of the supplied tank alone (its
\* fields, the status "normal", the threshold defaulted, the time of the
\* call), the histories are as they were, and every other tank is
\* unchanged.
C27_CreateTankOverwritesStoredID ==
    [][ /\ IsCreateTankStep
        /\ ret'.in # NilTank
        /\ ret'.in.Name # ""
        /\ ret'.in.Capacity > 0
        /\ Has(tanks, ret'.in.ID)
        => /\ ret'.err = NoErr
           /\ DOMAIN tanks' = DOMAIN tanks
           /\ tanks'[ret'.in.ID] = [ClaimedDefaults(ret'.in) EXCEPT !.LastUpdated = now]
           /\ measurements' = measurements
           /\ \A other \in DOMAIN tanks \ {ret'.in.ID} : tanks'[other] = tanks[other]
      ]_vars

\* A tank that already had a history was created again under its ID with
\* another name and level, next to a second tank: the stored entry is the
\* supplied one and the history is still there.
C27_Witness ==
    /\ ret.op = "CreateTank"
    /\ ret.err = NoErr
    /\ ret.in.Name = "B"
    /\ Has(tanks, "t2")
    /\ History(measurements, ret.id) # <<>>
    /\ tanks[ret.id].Name = "B"
    /\ tanks[ret.id].CurrentLevel = ret.in.CurrentLevel
    /\ tanks[ret.id].CurrentLevel # measurements[ret.id][1].Level

\* ---------------------------------------------------------------------------
\* C28
\* ---------------------------------------------------------------------------

\* C28: in every state and for every tank ID, MonitorTank hands an alert
\* to the notifier exactly when GetTankStatus returns "critical".
C28_AlertIffStatusCritical ==
    \A id \in TankIDs :
        MonitorTankResult(tanks, measurements, id, NoErr).alerts # <<>>
            <=> /\ GetTankStatusResult(tanks, measurements, id).err = NoErr
                /\ GetTankStatusResult(tanks, measurements, id).status = "critical"

\* ---------------------------------------------------------------------------
\* C29
\* ---------------------------------------------------------------------------

\* Thread t makes the tank write of its AddMeasurement in this step.
IsAmUpdateStep(t) ==
    procs[t].pc = "am_update" /\ procs'[t].pc # "am_update"

\* The fields AddMeasurement is not to change.
Descriptive(tank) ==
    [Name |-> tank.Name, Capacity |-> tank.Capacity,
     LiquidType |-> tank.LiquidType, AlertThreshold |-> tank.AlertThreshold]

\* C29: the tank write of an AddMeasurement leaves name, capacity, liquid
\* type and alert threshold as they were committed just before it, also
\* when an UpdateTank committed between the call's read and its write.
C29_AddMeasurementKeepsCommittedFields ==
    [][ \A t \in Threads :
            IsAmUpdateStep(t) /\ Has(tanks, procs[t].id) /\ Has(tanks', procs[t].id)
                => Descriptive(tanks'[procs[t].id]) = Descriptive(tanks[procs[t].id])
      ]_vars

\* ---------------------------------------------------------------------------
\* C30
\* ---------------------------------------------------------------------------

\* Thread t makes the tank write of its UpdateTank in this step.
IsUpdUpdateStep(t) ==
    procs[t].pc = "upd_update" /\ procs'[t].pc # "upd_update"

\* C30: an ID enters the tank store only in a step of a CreateTank, so a
\* deleted tank stays absent until a CreateTank; the tank write of an
\* UpdateTank or of an AddMeasurement that finds its tank gone (deleted
\* since the call read it) stores nothing and the call returns not-found.
C30_OnlyCreateTankAddsAnID ==
    [][ /\ \A id \in DOMAIN tanks' \ DOMAIN tanks :
              \E t \in Threads :
                  /\ \A u \in Threads \ {t} : procs'[u] = procs[u]
                  /\ procs[t].pc \in {"idle", "done"}
                  /\ procs'[t].op = "CreateTank"
                  /\ procs'[t].id = id
        /\ \A t \in Threads :
              (IsAmUpdateStep(t) \/ IsUpdUpdateStep(t)) /\ ~Has(tanks, procs[t].id)
                  => /\ tanks' = tanks
                     /\ procs'[t].pc = "done"
                     /\ IsNotFound(procs'[t].err)
      ]_vars

\* A DeleteTank succeeded between the read and the write of an UpdateTank:
\* the UpdateTank returned not-found from its write and the tank is absent.
C30_Witness ==
    \E t, u \in Threads :
        /\ Proc(t).op = "UpdateTank" /\ Proc(t).pc = "done"
        /\ Proc(t).calls = <<[call |-> "UpdateTank", err |-> RepoErrTankNotFound]>>
        /\ Proc(u).op = "DeleteTank" /\ Proc(u).pc = "done" /\ Proc(u).err = NoErr
        /\ ~Has(tanks, Proc(t).id)

\* ---------------------------------------------------------------------------
\* The HTTP handlers over the service.
\*
\* The router matches /api/tanks/{id} for a non-empty id only, so the id of
\* a request is never empty.  ret.err is what the service returned, ret.code
\* the status of the response.
\* ---------------------------------------------------------------------------

\* TankHandler.GetTank, lines 59-82.
HandleGetTank(id) ==
    LET r == GetTankResult(tanks, measurements, id)
    IN  /\ ret' = [NoCall EXCEPT
                      !.op = "TankHandler.GetTank", !.id = id, !.err = r.err,
                      !.out = r.tank,
                      !.code = IF r.err # NoErr THEN "StatusInternalServerError"
                               ELSE IF r.tank = NilTank THEN "StatusNotFound"
                               ELSE "StatusOK"]
        /\ UNCHANGED <<tanks, measurements, now, procs, heap>>

\* TankHandler.UpdateTank, lines 116-143: the ID of the URL replaces the ID
\* of the body.
HandleUpdateTank(id, tank) ==
    IF tank = BadJSON
    THEN /\ ret' = [NoCall EXCEPT !.op = "TankHandler.UpdateTank", !.id = id,
                                  !.code = "StatusBadRequest"]
         /\ UNCHANGED <<tanks, measurements, now, procs, heap>>
    ELSE LET r == UpdateTankResult(tanks, [tank EXCEPT !.ID = id], now)
         IN  /\ tanks' = r.tanks
             /\ ret' = [NoCall EXCEPT !.op = "TankHandler.UpdateTank", !.id = id,
                                      !.in = tank, !.err = r.err,
                                      !.code = Respond(r.err, "StatusOK")]
             /\ UNCHANGED <<measurements, now, procs, heap>>

\* TankHandler.DeleteTank, lines 146-158.
HandleDeleteTank(id) ==
    LET r == DeleteTankResult(tanks, id)
    IN  /\ tanks' = r.tanks
        /\ ret' = [NoCall EXCEPT !.op = "TankHandler.DeleteTank", !.id = id,
                                 !.err = r.err,
                                 !.code = Respond(r.err, "StatusNoContent")]
        /\ UNCHANGED <<measurements, now, procs, heap>>

\* TankHandler.AddMeasurement, lines 161-199: the tank ID of the URL, a new
\* UUID for an empty ID and the time of the request for a zero timestamp
\* are set on the decoded measurement before the service is called.
HandleAddMeasurement(id, measurement, uuid) ==
    IF measurement = BadJSON
    THEN /\ ret' = [NoCall EXCEPT !.op = "TankHandler.AddMeasurement", !.id = id,
                                  !.code = "StatusBadRequest"]
         /\ UNCHANGED <<tanks, measurements, now, procs, heap>>
    ELSE LET m == [measurement EXCEPT
                      !.TankID = id,
                      !.ID = IF @ = "" THEN uuid ELSE @,
                      !.Timestamp = IF @ = 0 THEN now ELSE @]
         IN  /\ Len(History(measurements, id)) < MaxHist
             /\ \E r \in AddMeasurementResults(tanks, measurements, m, now, NoErr) :
                   /\ tanks' = r.tanks
                   /\ measurements' = r.measurements
                   /\ ret' = [NoCall EXCEPT
                                 !.op = "TankHandler.AddMeasurement", !.id = id,
                                 !.m = m, !.err = r.err, !.alerts = r.alerts,
                                 !.code = Respond(r.err, "StatusCreated")]
             /\ UNCHANGED <<now, procs, heap>>

\* Requests with a body that does not decode, with invalid data (no name,
\* a negative level) and with valid data, for a stored and for an unknown
\* tank.
HandlerNext ==
    \/ \E id \in UUIDs : HandleGetTank(id)
    \/ \E t \in {TankA, TankNoID, [TankA EXCEPT !.Name = ""], BadJSON} :
          \E uuid \in UUIDs : HandleCreateTank(t, uuid)
    \/ \E id \in UUIDs : \E t \in {TankB, TankNoID, BadJSON} : HandleUpdateTank(id, t)
    \/ \E id \in UUIDs : HandleDeleteTank(id)
    \/ \E id \in UUIDs :
          \E m \in {MeasurementM, [MeasurementM EXCEPT !.ID = "", !.Level = 50],
                    [MeasurementM EXCEPT !.Level = -5], BadJSON} :
              HandleAddMeasurement(id, m, "m-uuid")

HandlerSpec == Init /\ [][HandlerNext]_vars

\* ---------------------------------------------------------------------------
\* C31
\* ---------------------------------------------------------------------------

HandlerOps ==
    {"TankHandler.GetTank", "TankHandler.CreateTank", "TankHandler.UpdateTank",
     "TankHandler.DeleteTank", "TankHandler.AddMeasurement"}

\* The error kinds of the service.
IsInvalidInput(err) == err \in {ErrInvalidTank, ErrInvalidMeasurement}

IsDependencyFailure(err) ==
    err # NoErr /\ ~IsInvalidInput(err) /\ ~IsNotFound(err)

\* C31: the response of the get, create, update, delete and add-measurement
\* endpoints is a client error when the service returned an InvalidInput
\* error, a not-found response when it returned a NotFound error, and a
\* server error only when it returned a dependency failure.
C31_ErrorKindsMapToResponseClasses ==
    ret.op \in HandlerOps =>
        /\ IsInvalidInput(ret.err) => ret.code = "StatusBadRequest"
        /\ IsNotFound(ret.err) => ret.code = "StatusNotFound"
        /\ ret.code = "StatusInternalServerError" => IsDependencyFailure(ret.err)

====
